---- MODULE Spec2Model ----
(***************************************************************************)
(* A model of the Translator of yezichak (src/unnamed/part_001): the term  *)
(* finder findTerms with its bulk database queries, the grouping and       *)
(* merging of dictionary entries, the removal of excluded dictionaries,    *)
(* the metadata and tag passes, and the text-variant generator.            *)
(*                                                                         *)
(* Strings that the code takes apart (texts, terms, tag names) are         *)
(* sequences of one-character strings; all other strings are atoms.        *)
(***************************************************************************)
EXTENDS Integers, Sequences, FiniteSets, TLC

VARIABLES
    \* ---- the text-variant generator (_generateArrayVariants) ----
    variantVectorSpace,   \* the axes: a sequence of [key, options]
    variantIndex,         \* the generator's loop counter
    variants,             \* the variants yielded so far
    \* ---- one findTerms call ----
    db,                   \* the term rows of the dictionary database
    mode,                 \* findTerms' arguments
    text,
    options,
    pc,                   \* where the call is suspended, "done" or "failed"
    pending,              \* the database query in flight (NoQuery: none)
    queryLog,             \* every database query issued by the call, in order
    deinflections,        \* the deinflection candidates
    heap,                 \* the inflection-hypothesis objects {source, inflections}
    dictionaryEntries,    \* the term dictionary entries built so far
    originalTextLength,
    locals,               \* the locals that live across an await
    tagCache,             \* Translator._tagCache: dictionary -> query -> tag
    result,               \* what findTerms returned (NoResult: nothing yet)
    error,                \* the error the call was rejected with
    \* ---- one getTermFrequencies call ----
    termReadingList,      \* getTermFrequencies' arguments
    frequencyDictionaries,
    termFrequencies,      \* what getTermFrequencies returned
    \* ---- one _createGroupedDictionaryEntry call ----
    entryGroup,           \* the entries to fold, and checkDuplicateDefinitions
    groupedEntry,         \* the entry returned (Null: nothing yet)
    \* ---- the loops of one _getAlgorithmDeinflections call ----
    scanText,             \* text2 of the variant at hand (Null: between variants)
    scanLength,           \* i, the length of the prefix to try next
    scanUsed,             \* used, the sources tried so far
    scanLog,              \* the sources turned into candidates, in order
    \* ---- concurrent _expandTagGroups calls and clearDatabaseCaches ----
    tagCacheMaps,         \* the Map objects created as per-dictionary caches
    translatorTagCache,   \* Translator._tagCache: dictionary -> Map object
    expansions,           \* per caller: where its _expandTagGroups call is
    expansionsStarted,    \* the number of _expandTagGroups calls so far
    clears,               \* the number of clearDatabaseCaches calls so far
    served                \* the records taken from the cache, with the time

genVars == <<variantVectorSpace, variantIndex, variants>>
callVars == <<db, mode, text, options, pc, pending, queryLog, deinflections, heap,
              dictionaryEntries, originalTextLength, locals, tagCache, result, error>>
freqVars == <<termReadingList, frequencyDictionaries, termFrequencies>>
foldVars == <<entryGroup, groupedEntry>>
scanVars == <<scanText, scanLength, scanUsed, scanLog>>
tagVars == <<tagCacheMaps, translatorTagCache, expansions, expansionsStarted, clears, served>>
vars == <<variantVectorSpace, variantIndex, variants,
          db, mode, text, options, pc, pending, queryLog, deinflections, heap,
          dictionaryEntries, originalTextLength, locals, tagCache, result, error,
          termReadingList, frequencyDictionaries, termFrequencies,
          entryGroup, groupedEntry, scanText, scanLength, scanUsed, scanLog,
          tagCacheMaps, translatorTagCache, expansions, expansionsStarted, clears, served>>

\* No _expandTagGroups call of the concurrent callers, and an empty cache.
TagCallers == {1, 2}
NoExpansion == [pc |-> "idle", nonCachedItems |-> <<>>, issued |-> 0]
TagsIdle ==
    /\ tagCacheMaps = <<>>
    /\ translatorTagCache = <<>>
    /\ expansions = [c \in TagCallers |-> NoExpansion]
    /\ expansionsStarted = 0
    /\ clears = 0
    /\ served = {}

(***************************************************************************)
(* Bounds of the model.                                                    *)
(***************************************************************************)
MaxReplacementVariants == 2
MaxTextLength == 2

(***************************************************************************)
(* Generic helpers.                                                        *)
(***************************************************************************)
Range(s) == {s[i] : i \in DOMAIN s}

Max(a, b) == IF a >= b THEN a ELSE b
Min(a, b) == IF a <= b THEN a ELSE b

RECURSIVE SeqProduct(_)
SeqProduct(s) == IF s = <<>> THEN 1 ELSE Head(s) * SeqProduct(Tail(s))

\* Array.prototype.includes
Includes(s, x) == \E i \in DOMAIN s : s[i] = x

\* String.prototype.endsWith
EndsWith(str, suffix) ==
    /\ Len(suffix) <= Len(str)
    /\ SubSeq(str, Len(str) - Len(suffix) + 1, Len(str)) = suffix

\* The concatenation of a sequence of sequences (Array.prototype.flat).
RECURSIVE Flatten(_)
Flatten(ss) == IF ss = <<>> THEN <<>> ELSE Head(ss) \o Flatten(Tail(ss))

\* The distinct elements of s in the order of their first occurrence: the
\* key order of a Map, or of an object with string keys, filled from s.
RECURSIVE UniqueInOrder(_, _)
UniqueInOrder(s, seen) ==
    IF s = <<>> THEN <<>>
    ELSE IF Head(s) \in seen THEN UniqueInOrder(Tail(s), seen)
         ELSE <<Head(s)>> \o UniqueInOrder(Tail(s), seen \cup {Head(s)})

\* An optional value: <<>> is null, <<x>> is x.
Null == <<>>
Some(x) == <<x>>

\* A local constant whose value is computed once: Let(e, LAMBDA x : body) is
\* body with x standing for the value of e.
Let(x, F(_)) == F(x)

(***************************************************************************)
(* The dictionaries, the database and its bulk queries.  The database      *)
(* (dictionary-database.js) is outside the source: its queries are         *)
(* modelled from the interface the Translator consumes.                    *)
(***************************************************************************)
\* options.enabledDictionaryMap, in insertion order.
EnabledDictionaryMap ==
    << [dictionary |-> "M", index |-> 0, priority |-> 1, allowSecondarySearches |-> FALSE],
       [dictionary |-> "E", index |-> 1, priority |-> 0, allowSecondarySearches |-> TRUE],
       [dictionary |-> "F", index |-> 2, priority |-> 0, allowSecondarySearches |-> FALSE] >>

MapHas(map, dictionary) == \E i \in DOMAIN map : map[i].dictionary = dictionary
MapGet(map, dictionary) == map[CHOOSE i \in DOMAIN map : map[i].dictionary = dictionary]

\* Tag names are sequences of tokens; ":" separates the base from the rest.
NonLemma == <<"non-lemma">>

\* The term rows the database may hold; a database is a set of row ids.
RowUniverse ==
    << [id |-> 1, term |-> <<"a">>, reading |-> <<>>, dictionary |-> "M", sequence |-> 1,
        definitionTags |-> << <<"n">> >>, termTags |-> << <<"P", ":", "1">> >>,
        definitions |-> <<"g1">>, score |-> 0, rules |-> <<"n">>,
        formOf |-> <<>>, inflectionHypotheses |-> <<>>],
       [id |-> 2, term |-> <<"a", "s">>, reading |-> <<"a", "s">>, dictionary |-> "M", sequence |-> 1,
        definitionTags |-> << <<"n">> >>, termTags |-> << <<"P", ":", "2">> >>,
        definitions |-> <<"g1">>, score |-> 1, rules |-> <<"n">>,
        formOf |-> <<>>, inflectionHypotheses |-> <<>>],
       [id |-> 3, term |-> <<"a">>, reading |-> <<"a">>, dictionary |-> "E", sequence |-> -1,
        definitionTags |-> <<>>, termTags |-> <<>>,
        definitions |-> <<"g2">>, score |-> 0, rules |-> <<"n">>,
        formOf |-> <<>>, inflectionHypotheses |-> <<>>],
       [id |-> 4, term |-> <<"a", "s">>, reading |-> <<"a", "s">>, dictionary |-> "E", sequence |-> -1,
        definitionTags |-> << NonLemma >>, termTags |-> <<>>,
        definitions |-> <<"g3">>, score |-> 0, rules |-> <<>>,
        formOf |-> <<"a">>, inflectionHypotheses |-> << <<"pl">> >>],
       [id |-> 5, term |-> <<"s", "a">>, reading |-> <<"a">>, dictionary |-> "M", sequence |-> 2,
        definitionTags |-> << <<"v">> >>, termTags |-> <<>>,
        definitions |-> <<"g4">>, score |-> 2, rules |-> <<"n">>,
        formOf |-> <<>>, inflectionHypotheses |-> <<>>],
       \* Rows 6 to 12: one term with three readings, two of them in a sequence
       \* of the main dictionary next to a second term, one without sequence.
       [id |-> 6, term |-> <<"a">>, reading |-> <<"1">>, dictionary |-> "M", sequence |-> 3,
        definitionTags |-> <<>>, termTags |-> <<>>,
        definitions |-> <<"h1">>, score |-> 0, rules |-> <<"n">>,
        formOf |-> <<>>, inflectionHypotheses |-> <<>>],
       [id |-> 7, term |-> <<"s", "a">>, reading |-> <<>>, dictionary |-> "M", sequence |-> 3,
        definitionTags |-> <<>>, termTags |-> <<>>,
        definitions |-> <<"h2">>, score |-> 0, rules |-> <<"n">>,
        formOf |-> <<>>, inflectionHypotheses |-> <<>>],
       [id |-> 8, term |-> <<"s", "a">>, reading |-> <<>>, dictionary |-> "M", sequence |-> 3,
        definitionTags |-> <<>>, termTags |-> <<>>,
        definitions |-> <<"h3">>, score |-> 0, rules |-> <<"n">>,
        formOf |-> <<>>, inflectionHypotheses |-> <<>>],
       [id |-> 9, term |-> <<"a">>, reading |-> <<"2">>, dictionary |-> "M", sequence |-> -1,
        definitionTags |-> << <<"n">> >>, termTags |-> <<>>,
        definitions |-> <<"h4">>, score |-> 0, rules |-> <<"n">>,
        formOf |-> <<>>, inflectionHypotheses |-> <<>>],
       [id |-> 10, term |-> <<"a">>, reading |-> <<"2">>, dictionary |-> "M", sequence |-> -1,
        definitionTags |-> << <<"n">> >>, termTags |-> <<>>,
        definitions |-> <<"h4">>, score |-> 0, rules |-> <<"n">>,
        formOf |-> <<>>, inflectionHypotheses |-> <<>>],
       [id |-> 11, term |-> <<"a">>, reading |-> <<"3">>, dictionary |-> "M", sequence |-> 4,
        definitionTags |-> <<>>, termTags |-> <<>>,
        definitions |-> <<"h5">>, score |-> 0, rules |-> <<"n">>,
        formOf |-> <<>>, inflectionHypotheses |-> <<>>],
       [id |-> 12, term |-> <<"a", "s">>, reading |-> <<>>, dictionary |-> "M", sequence |-> 4,
        definitionTags |-> <<>>, termTags |-> <<>>,
        definitions |-> <<"h5">>, score |-> 0, rules |-> <<"n">>,
        formOf |-> <<>>, inflectionHypotheses |-> <<>>],
       \* Row 13: a form-of entry whose hypothesis names one inflection twice.
       [id |-> 13, term |-> <<"a", "s">>, reading |-> <<"a", "s">>, dictionary |-> "E", sequence |-> -1,
        definitionTags |-> << NonLemma >>, termTags |-> <<>>,
        definitions |-> <<"g5">>, score |-> 0, rules |-> <<>>,
        formOf |-> <<"a">>, inflectionHypotheses |-> << <<"pl", "pl">> >>],
       \* Row 14: a form-of entry that names its lemma by a reading.
       [id |-> 14, term |-> <<"a", "s">>, reading |-> <<"a", "s">>, dictionary |-> "E", sequence |-> -1,
        definitionTags |-> << NonLemma >>, termTags |-> <<>>,
        definitions |-> <<"g6">>, score |-> 0, rules |-> <<>>,
        formOf |-> <<"1">>, inflectionHypotheses |-> << <<"pl">> >>],
       \* Row 15: a second sense of the headword of row 11, in its sequence.
       [id |-> 15, term |-> <<"a">>, reading |-> <<"3">>, dictionary |-> "M", sequence |-> 4,
        definitionTags |-> <<>>, termTags |-> <<>>,
        definitions |-> <<"h6">>, score |-> 0, rules |-> <<"n">>,
        formOf |-> <<>>, inflectionHypotheses |-> <<>>],
       \* Row 16: the headword of row 9 with a sense of a higher score.
       [id |-> 16, term |-> <<"a">>, reading |-> <<"2">>, dictionary |-> "M", sequence |-> -1,
        definitionTags |-> << <<"n">> >>, termTags |-> <<>>,
        definitions |-> <<"h7">>, score |-> 1, rules |-> <<"n">>,
        formOf |-> <<>>, inflectionHypotheses |-> <<>>],
       \* Row 17: a form-of entry that fits the rule of a deinflected
       \* candidate and has two hypotheses, one of them without inflections.
       [id |-> 17, term |-> <<"a">>, reading |-> <<"a">>, dictionary |-> "E", sequence |-> -1,
        definitionTags |-> << NonLemma >>, termTags |-> <<>>,
        definitions |-> <<"g7">>, score |-> 0, rules |-> <<"n">>,
        formOf |-> <<"s", "a">>, inflectionHypotheses |-> << <<"dim">>, <<>> >>] >>

\* The databases of the model: every set of the rows 1 to 5, the rows 6 to
\* 12 together, and the rows 5, 6 and 7 (two sequences that share a term, of
\* which one has a term with a frequency), the rows 3 and 13 (a lemma and a
\* form of it), the rows 6, 9 and 14 (two lemmas of one term and a form of
\* the first of them), and the rows 11, 12 and 15 (a sequence of two
\* headwords that share one sense, the first headword having a second one),
\* the rows 9 and 16 (one headword with two senses of different scores), and
\* the rows 5 and 17 (a lemma and a form of it that is itself deinflected),
\* and the rows 4 and 12 (a sequenced headword of the main dictionary and a
\* form entry of the same headword, with a smaller id, in the dictionary
\* that allows secondary searches).
CoreRows == {r \in DOMAIN RowUniverse : r <= 5}
HomographRows == {r \in DOMAIN RowUniverse : r >= 6 /\ r <= 12}
Databases == SUBSET CoreRows \cup {HomographRows, {5, 6, 7}, {3, 13}, {6, 9, 14}, {11, 12, 15}, {9, 16}, {5, 17}, {4, 12}}

DbRows(database) == SelectSeq(RowUniverse, LAMBDA r : r.id \in database)

\* A row as a query returns it: with the position of the query it answers.
DatabaseEntry(row, index, matchSource) ==
    [index |-> index, matchType |-> "exact", matchSource |-> matchSource,
     id |-> row.id, term |-> row.term, reading |-> row.reading,
     dictionary |-> row.dictionary, sequence |-> row.sequence,
     definitionTags |-> row.definitionTags, termTags |-> row.termTags,
     definitions |-> row.definitions, score |-> row.score, rules |-> row.rules,
     formOf |-> row.formOf, inflectionHypotheses |-> row.inflectionHypotheses]

\* findTermsBulk with matchType exact: per queried term, the rows whose term
\* is the query, then the rows matched by their reading only.
FindTermsBulk(termList, enabledDictionaryMap, database) ==
    Let(SelectSeq(DbRows(database), LAMBDA r : MapHas(enabledDictionaryMap, r.dictionary)), LAMBDA rows :
        LET ByTerm(i) ==
                Let(SelectSeq(rows, LAMBDA r : r.term = termList[i]), LAMBDA m :
                    [k \in 1..Len(m) |-> DatabaseEntry(m[k], i - 1, "term")])
            ByReading(i) ==
                Let(SelectSeq(rows, LAMBDA r : r.reading = termList[i] /\ r.term # termList[i]), LAMBDA m :
                    [k \in 1..Len(m) |-> DatabaseEntry(m[k], i - 1, "reading")])
        IN  Flatten([i \in 1..Len(termList) |-> ByTerm(i) \o ByReading(i)]))

\* findTermsBySequenceBulk: items {query: sequence, dictionary}.
FindTermsBySequenceBulk(sequenceList, database) ==
    Let(DbRows(database), LAMBDA rows :
        LET For(i) ==
                Let(SelectSeq(rows, LAMBDA r : r.sequence = sequenceList[i].query
                                              /\ r.dictionary = sequenceList[i].dictionary), LAMBDA m :
                    [k \in 1..Len(m) |-> DatabaseEntry(m[k], i - 1, "term")])
        IN  Flatten([i \in 1..Len(sequenceList) |-> For(i)]))

\* findTermsExactBulk: items {term, reading}.
FindTermsExactBulk(termList, dictionaryMap, database) ==
    Let(SelectSeq(DbRows(database), LAMBDA r : MapHas(dictionaryMap, r.dictionary)), LAMBDA rows :
        LET For(i) ==
                Let(SelectSeq(rows, LAMBDA r : r.term = termList[i].term
                                              /\ r.reading = termList[i].reading), LAMBDA m :
                    [k \in 1..Len(m) |-> DatabaseEntry(m[k], i - 1, "term")])
        IN  Flatten([i \in 1..Len(termList) |-> For(i)]))

(***************************************************************************)
(* The deinflector (deinflector.js, outside the source), modelled from the *)
(* specification: breadth-first suffix rewriting; rule masks are sets of   *)
(* rule ids, 0 is the empty set.                                           *)
(***************************************************************************)
DeinflectionRules ==
    << [name |-> "pl", rulesIn |-> {}, rulesOut |-> {"n"},
        suffixIn |-> <<"s">>, suffixOut |-> <<>>] >>

RECURSIVE DeinflectFrom(_, _)
DeinflectFrom(results, i) ==
    IF i > Len(results) THEN results
    ELSE LET c == results[i]
         IN  Let(SelectSeq(DeinflectionRules, LAMBDA r :
                     /\ EndsWith(c.term, r.suffixIn)
                     /\ (r.rulesIn = {} \/ c.rules \cap r.rulesIn # {})), LAMBDA applicable :
             DeinflectFrom(
                 results \o [k \in 1..Len(applicable) |->
                     [term |-> SubSeq(c.term, 1, Len(c.term) - Len(applicable[k].suffixIn))
                                   \o applicable[k].suffixOut,
                      rules |-> applicable[k].rulesOut,
                      reasons |-> Append(c.reasons, applicable[k].name)]],
                 i + 1))

Deinflect(source) == DeinflectFrom(<<[term |-> source, rules |-> {}, reasons |-> <<>>]>>, 1)

\* Deinflector.rulesToRuleFlags
RulesToRuleFlags(rules) == Range(rules)

\* _rulesFit
RulesFit(rules1, rules2) == rules1 = {} \/ (rules1 \cap rules2) # {}

(***************************************************************************)
(* The variant vector space of _getAlgorithmDeinflections.                 *)
(***************************************************************************)
\* _getTextOptionEntryVariants
GetTextOptionEntryVariants(value) ==
    CASE value = "true" -> <<TRUE>>
      [] value = "variant" -> <<FALSE, TRUE>>
      [] OTHER -> <<FALSE>>

\* _getCollapseEmphaticOptions: pairs [collapseEmphatic, collapseEmphaticFull]
GetCollapseEmphaticOptions(setting) ==
    CASE setting = "true" -> << <<FALSE, FALSE>>, <<TRUE, FALSE>> >>
      [] setting = "full" -> << <<FALSE, FALSE>>, <<TRUE, FALSE>>, <<TRUE, TRUE>> >>
      [] OTHER -> << <<FALSE, FALSE>> >>

\* The text transformations of src/ext/js/language/textTransformations.js
TextTransformationIds == <<"decapitalize", "capitalizeFirstLetter">>

ToLowerCase(ch) == CASE ch = "A" -> "a" [] ch = "S" -> "s" [] OTHER -> ch
ToUpperCase(ch) == CASE ch = "a" -> "A" [] ch = "s" -> "S" [] OTHER -> ch

\* decapitalize.transform
Decapitalize(str) == [i \in 1..Len(str) |-> ToLowerCase(str[i])]

\* capitalizeFirstLetter.transform
CapitalizeFirstLetter(str) ==
    IF str = <<>> THEN <<>> ELSE <<ToUpperCase(str[1])>> \o Tail(str)

Transform(id, str) ==
    CASE id = "decapitalize" -> Decapitalize(str)
      [] id = "capitalizeFirstLetter" -> CapitalizeFirstLetter(str)
      [] OTHER -> str

\* _getTextTransformations: the options' entries whose id the language knows,
\* in the options' key order.
GetTextTransformations(opts) ==
    SelectSeq(opts.textTransformations, LAMBDA t : Includes(TextTransformationIds, t.id))

\* The object literal of _getAlgorithmDeinflections: textReplacements first,
\* collapseEmphaticOptions second, then one axis per text transformation, in
\* the insertion order of the keys.
VariantVectorSpace(textReplacements, collapseSetting, transformationSettings) ==
    << [key |-> "textReplacements", options |-> textReplacements],
       [key |-> "collapseEmphaticOptions", options |-> GetCollapseEmphaticOptions(collapseSetting)] >>
    \o [i \in 1..Len(transformationSettings) |->
            [key |-> transformationSettings[i].id,
             options |-> GetTextOptionEntryVariants(transformationSettings[i].setting)]]

(***************************************************************************)
(* _generateArrayVariants: variant number variantIndex of the space.       *)
(***************************************************************************)
TotalVariants(space) == SeqProduct([i \in 1..Len(space) |-> Len(space[i].options)])

\* The inner loop over the keys: remainingIndex is divided by the number of
\* options of every key already handled.
RECURSIVE VariantFrom(_, _, _)
VariantFrom(space, keyIndex, remainingIndex) ==
    IF keyIndex > Len(space) THEN <<>>
    ELSE LET entryVariants == space[keyIndex].options
             entryIndex == remainingIndex % Len(entryVariants)
         IN  <<entryVariants[entryIndex + 1]>>
             \o VariantFrom(space, keyIndex + 1, remainingIndex \div Len(entryVariants))

\* (mutant) the remaining index is never divided: every axis reads the same digit
VariantFromNoCarry(space, idx) ==
    [k \in 1..Len(space) |-> space[k].options[(idx % Len(space[k].options)) + 1]]

GenerateArrayVariant(space, idx) == VariantFrom(space, 1, idx)

(***************************************************************************)
(* _getAlgorithmDeinflections.  A text replacement variant is 0 (null) or  *)
(* the number of a replacement list; only the null variant is applied in   *)
(* this model (RegexUtil and TextSourceMap are outside the source), so the *)
(* source map stays the identity: getSourceLength(i) = i.                  *)
(***************************************************************************)
GetSourceLength(i) == i

IsLetter(ch) == ch \in {"a", "s", "A", "S"}
IsNumber(ch) == ch \in {"1"}

\* source.search(/[^\p{Letter}]([\p{Letter}\p{Number}]*)$/u): the index (from
\* 0) of the leftmost non-letter that only letters and numbers follow, or -1.
SearchWordBoundary(source) ==
    Let({ p \in 0..(Len(source) - 1) :
            /\ ~IsLetter(source[p + 1])
            /\ \A q \in (p + 2)..Len(source) : IsLetter(source[q]) \/ IsNumber(source[q]) }, LAMBDA hits :
        IF hits = {} THEN -1 ELSE CHOOSE p \in hits : \A q \in hits : p <= q)

\* (mutant) the candidate takes the transformed text for its original text
CreateDeinflectionOfTransformedText(originalText, transformedText, deinflectedText, rules, inflectionHypotheses, databaseEntries) ==
    [originalText |-> transformedText, transformedText |-> transformedText,
     deinflectedText |-> deinflectedText, rules |-> rules,
     inflectionHypotheses |-> inflectionHypotheses, databaseEntries |-> databaseEntries,
     isDictionaryDeinflection |-> FALSE]

\* _createDeinflection; isDictionaryDeinflection is set by the caller.
CreateDeinflection(originalText, transformedText, deinflectedText, rules, inflectionHypotheses, databaseEntries) ==
    [originalText |-> originalText, transformedText |-> transformedText,
     deinflectedText |-> deinflectedText, rules |-> rules,
     inflectionHypotheses |-> inflectionHypotheses, databaseEntries |-> databaseEntries,
     isDictionaryDeinflection |-> FALSE]

\* The text of one variant: the transformations whose axis value is true.
RECURSIVE ApplyTransformations(_, _, _, _)
ApplyTransformations(str, variant, transformations, k) ==
    IF k > Len(transformations) THEN str
    ELSE ApplyTransformations(
             IF variant[2 + k] THEN Transform(transformations[k].id, str) ELSE str,
             variant, transformations, k + 1)

\* The body of the while loop for one source, and the loop itself.  acc is
\* [deinflections, heap, used]; a hypothesis object is allocated per result.
RECURSIVE PrefixLoop(_, _, _, _, _)
PrefixLoop(rawText, text2, i, opts, acc) ==
    IF i <= 0 THEN acc
    ELSE LET source == SubSeq(text2, 1, i) IN
         IF source \in acc.used THEN acc
         ELSE Let(Deinflect(source), LAMBDA results :
              LET rawSource == SubSeq(rawText, 1, GetSourceLength(i))
                  base == Len(acc.heap)
                  added ==
                      IF opts.deinflectionSource # "dictionary"
                      THEN [k \in 1..Len(results) |->
                               CreateDeinflection(rawSource, source, results[k].term,
                                                  results[k].rules, <<base + k>>, <<>>)]
                      ELSE <<CreateDeinflection(rawSource, source, source, {}, <<>>, <<>>)>>
                  objects ==
                      IF opts.deinflectionSource # "dictionary"
                      THEN [k \in 1..Len(results) |->
                               [source |-> "algorithm", inflections |-> results[k].reasons]]
                      ELSE <<>>
                  next == IF opts.searchResolution = "word"
                          THEN SearchWordBoundary(source)
                          ELSE i - 1
              IN  PrefixLoop(rawText, text2, next, opts,
                             [deinflections |-> acc.deinflections \o added,
                              heap |-> acc.heap \o objects,
                              used |-> acc.used \cup {source}]))

RECURSIVE VariantLoop(_, _, _, _, _)
VariantLoop(rawText, opts, space, idx, acc) ==
    IF idx >= TotalVariants(space) THEN acc
    ELSE Let(ApplyTransformations(rawText, GenerateArrayVariant(space, idx),
                                  GetTextTransformations(opts), 1), LAMBDA text2 :
             VariantLoop(rawText, opts, space, idx + 1,
                         PrefixLoop(rawText, text2, Len(text2), opts, acc)))

GetAlgorithmDeinflections(rawText, opts) ==
    VariantLoop(rawText, opts,
                VariantVectorSpace(opts.textReplacements, opts.collapseEmphaticSequences,
                                   GetTextTransformations(opts)),
                0, [deinflections |-> <<>>, heap |-> <<>>, used |-> {}])

(***************************************************************************)
(* _getDeinflections and its helpers.                                      *)
(***************************************************************************)
\* _groupDeinflectionsByTerm: the keys of the map, in insertion order.
UniqueDeinflectionTerms(ds) ==
    UniqueInOrder([k \in 1..Len(ds) |-> ds[k].deinflectedText], {})

\* _matchEntriesToDeinflections: every deinflection of the term a database
\* entry answers gets the entry, in the order of the reply.
MatchEntriesToDeinflections(databaseEntries, ds, checkRules) ==
    Let(UniqueDeinflectionTerms(ds), LAMBDA terms :
        [k \in 1..Len(ds) |->
            [ds[k] EXCEPT !.databaseEntries = @ \o
                SelectSeq(databaseEntries, LAMBDA e :
                    /\ terms[e.index + 1] = ds[k].deinflectedText
                    /\ (~checkRules \/ RulesFit(ds[k].rules, RulesToRuleFlags(e.rules))))]])

\* (mutant) the source is 'both' only when the dictionary hypothesis carries
\* an inflection too
DictionaryHypothesesBothCarry(entry, algHypotheses, hp) ==
    Flatten([h \in 1..Len(entry.inflectionHypotheses) |->
               [a \in 1..Len(algHypotheses) |->
                   [source |-> IF hp[algHypotheses[a]].inflections # <<>> /\ entry.inflectionHypotheses[h] # <<>>
                               THEN "both" ELSE "dictionary",
                    inflections |-> hp[algHypotheses[a]].inflections \o entry.inflectionHypotheses[h]]]])

\* The hypotheses of one dictionary deinflection: flatMap over the entry's
\* hypotheses, map over the candidate's algorithm hypotheses.
DictionaryHypotheses(entry, algHypotheses, hp) ==
    Flatten([h \in 1..Len(entry.inflectionHypotheses) |->
               [a \in 1..Len(algHypotheses) |->
                   [source |-> IF hp[algHypotheses[a]].inflections = <<>> THEN "dictionary" ELSE "both",
                    inflections |-> hp[algHypotheses[a]].inflections \o entry.inflectionHypotheses[h]]]])

\* The synchronous part of _getDictionaryDeinflections: one deinflection per
\* non-lemma hit, in the order of the nested forEach loops.
RECURSIVE DictionaryDeinflectionsFrom(_, _)
DictionaryDeinflectionsFrom(hits, acc) ==
    IF hits = <<>> THEN acc
    ELSE LET d == Head(hits).deinflection
             entry == Head(hits).entry
             base == Len(acc.heap)
         IN  Let(DictionaryHypotheses(entry, d.inflectionHypotheses, acc.heap), LAMBDA objects :
             LET dd == [CreateDeinflection(d.originalText, d.transformedText, entry.formOf, {},
                                           [k \in 1..Len(objects) |-> base + k], <<>>)
                           EXCEPT !.isDictionaryDeinflection = TRUE]
             IN  DictionaryDeinflectionsFrom(Tail(hits),
                     [deinflections |-> Append(acc.deinflections, dd), heap |-> acc.heap \o objects]))

GetDictionaryDeinflections(ds, hp) ==
    LET hits == Flatten([k \in 1..Len(ds) |->
                    Let(SelectSeq(ds[k].databaseEntries,
                                  LAMBDA e : Includes(e.definitionTags, NonLemma)), LAMBDA nl :
                        [j \in 1..Len(nl) |-> [deinflection |-> ds[k], entry |-> nl[j]]])])
    IN  DictionaryDeinflectionsFrom(hits, [deinflections |-> <<>>, heap |-> hp])

(***************************************************************************)
(* Term data: the record constructors.  Indices are those of the code,     *)
(* counted from 0.                                                         *)
(***************************************************************************)
\* _getDictionaryOrder
GetDictionaryOrder(dictionary, enabledDictionaryMap) ==
    IF MapHas(enabledDictionaryMap, dictionary)
    THEN [index |-> MapGet(enabledDictionaryMap, dictionary).index,
          priority |-> MapGet(enabledDictionaryMap, dictionary).priority]
    ELSE [index |-> Len(enabledDictionaryMap), priority |-> 0]

CreateTagGroup(dictionary, tagNames) == [dictionary |-> dictionary, tagNames |-> tagNames]

CreateSource(originalText, transformedText, deinflectedText, matchType, matchSource, isPrimary) ==
    [originalText |-> originalText, transformedText |-> transformedText,
     deinflectedText |-> deinflectedText, matchType |-> matchType,
     matchSource |-> matchSource, isPrimary |-> isPrimary]

CreateTermHeadword(index, term, reading, sources, tags, wordClasses) ==
    [index |-> index, term |-> term, reading |-> reading, sources |-> sources,
     tags |-> tags, wordClasses |-> wordClasses]

CreateTermDefinition(index, headwordIndices, dictionary, dictionaryIndex, dictionaryPriority, id, score, sequences, isPrimary, tags, entries) ==
    [index |-> index, headwordIndices |-> headwordIndices, dictionary |-> dictionary,
     dictionaryIndex |-> dictionaryIndex, dictionaryPriority |-> dictionaryPriority,
     id |-> id, score |-> score, frequencyOrder |-> 0, sequences |-> sequences,
     isPrimary |-> isPrimary, tags |-> tags, entries |-> entries]

CreateTermDictionaryEntry(isPrimary, inflectionHypotheses, score, dictionaryIndex, dictionaryPriority, sourceTermExactMatchCount, maxTransformedTextLength, headwords, definitions) ==
    [type |-> "term", isPrimary |-> isPrimary, inflectionHypotheses |-> inflectionHypotheses,
     score |-> score, frequencyOrder |-> 0, dictionaryIndex |-> dictionaryIndex,
     dictionaryPriority |-> dictionaryPriority,
     sourceTermExactMatchCount |-> sourceTermExactMatchCount,
     maxTransformedTextLength |-> maxTransformedTextLength,
     headwords |-> headwords, definitions |-> definitions,
     pronunciations |-> <<>>, frequencies |-> <<>>]

\* _createTermDictionaryEntryFromDatabaseEntry; reasons is the array of
\* hypothesis objects (heap addresses), shared with the deinflection.
CreateTermDictionaryEntryFromDatabaseEntry(databaseEntry, originalText, transformedText, deinflectedText, reasons, isPrimary, enabledDictionaryMap) ==
    Let(GetDictionaryOrder(databaseEntry.dictionary, enabledDictionaryMap), LAMBDA order :
    LET term == databaseEntry.term
        reading == IF Len(databaseEntry.reading) > 0 THEN databaseEntry.reading ELSE term
        sourceTermExactMatchCount == IF isPrimary /\ deinflectedText = term THEN 1 ELSE 0
        source == CreateSource(originalText, transformedText, deinflectedText,
                               databaseEntry.matchType, databaseEntry.matchSource, isPrimary)
        sequence == IF databaseEntry.sequence >= 0 THEN databaseEntry.sequence ELSE -1
        headwordTagGroups == IF Len(databaseEntry.termTags) > 0
                             THEN <<CreateTagGroup(databaseEntry.dictionary, databaseEntry.termTags)>>
                             ELSE <<>>
        definitionTagGroups == IF Len(databaseEntry.definitionTags) > 0
                               THEN <<CreateTagGroup(databaseEntry.dictionary, databaseEntry.definitionTags)>>
                               ELSE <<>>
    IN  CreateTermDictionaryEntry(
            isPrimary, reasons, databaseEntry.score, order.index, order.priority,
            sourceTermExactMatchCount, Len(transformedText),
            <<CreateTermHeadword(0, term, reading, <<source>>, headwordTagGroups, databaseEntry.rules)>>,
            <<CreateTermDefinition(0, <<0>>, databaseEntry.dictionary, order.index, order.priority,
                                   databaseEntry.id, databaseEntry.score, <<sequence>>, isPrimary,
                                   definitionTagGroups, databaseEntry.definitions)>>))

(***************************************************************************)
(* _findTermsInternal: the loop over the deinflections and their hits.     *)
(***************************************************************************)
\* _areInflectionHyphothesesEqual: the two Sets have the same elements.
AreInflectionHyphothesesEqual(hypotheses1, hypotheses2) ==
    Let(Range(hypotheses1), LAMBDA set1 :
    Let(Range(hypotheses2), LAMBDA set2 :
        Cardinality(set1) = Cardinality(set2) /\ \A x \in set1 : x \in set2))

\* inflectionHypotheses.forEach of the merge: acc is [heap, newHypotheses].
RECURSIVE MergeHypotheses(_, _, _, _)
MergeHypotheses(incoming, existingHypotheses, k, acc) ==
    IF k > Len(incoming) THEN acc
    ELSE LET h == acc.heap[incoming[k]]
         IN  Let({ j \in 1..Len(existingHypotheses) :
                     AreInflectionHyphothesesEqual(acc.heap[existingHypotheses[j]].inflections,
                                                   h.inflections) }, LAMBDA found :
             IF found = {}
             THEN MergeHypotheses(incoming, existingHypotheses, k + 1,
                      [acc EXCEPT !.newHypotheses =
                           Append(@, [source |-> h.source, inflections |-> h.inflections])])
             ELSE Let(existingHypotheses[CHOOSE j \in found : \A j2 \in found : j <= j2],
                      LAMBDA duplicate :
                      MergeHypotheses(incoming, existingHypotheses, k + 1,
                          IF acc.heap[duplicate].source # h.source
                          THEN [acc EXCEPT !.heap[duplicate].source = "both"]
                          ELSE acc)))

\* (mutant) an id seen again is not recognised
IdSeenNever(ids, id) == FALSE

\* ids.has(id)
IdSeen(ids, id) == id \in ids

\* The body of the inner loop for one database entry of one deinflection;
\* acc is [dictionaryEntries, ids, heap].
ProcessDatabaseEntry(acc, d, databaseEntry, enabledDictionaryMap) ==
    LET id == databaseEntry.id IN
    IF IdSeen(acc.ids, id)
    THEN Let(CHOOSE i \in 1..Len(acc.dictionaryEntries) :
                 /\ \E j \in 1..Len(acc.dictionaryEntries[i].definitions) :
                       acc.dictionaryEntries[i].definitions[j].id = id
                 /\ \A i2 \in 1..(i - 1) :
                       \A j \in 1..Len(acc.dictionaryEntries[i2].definitions) :
                          acc.dictionaryEntries[i2].definitions[j].id # id, LAMBDA at :
         LET existingEntry == acc.dictionaryEntries[at]
         IN  IF Len(d.transformedText) >= Len(existingEntry.headwords[1].sources[1].transformedText)
             THEN Let(MergeHypotheses(d.inflectionHypotheses, existingEntry.inflectionHypotheses, 1,
                                      [heap |-> acc.heap, newHypotheses |-> <<>>]), LAMBDA m :
                      [acc EXCEPT
                          !.heap = m.heap \o m.newHypotheses,
                          !.dictionaryEntries[at].inflectionHypotheses =
                              @ \o [k \in 1..Len(m.newHypotheses) |-> Len(m.heap) + k]])
             ELSE acc)
    ELSE IF Includes(databaseEntry.definitionTags, NonLemma) THEN acc
    ELSE [acc EXCEPT
             !.dictionaryEntries = Append(@,
                 CreateTermDictionaryEntryFromDatabaseEntry(databaseEntry, d.originalText,
                     d.transformedText, d.deinflectedText, d.inflectionHypotheses, TRUE,
                     enabledDictionaryMap)),
             !.ids = @ \cup {id}]

RECURSIVE ProcessDatabaseEntries(_, _, _, _)
ProcessDatabaseEntries(acc, d, k, enabledDictionaryMap) ==
    IF k > Len(d.databaseEntries) THEN acc
    ELSE ProcessDatabaseEntries(
             ProcessDatabaseEntry(acc, d, d.databaseEntries[k], enabledDictionaryMap),
             d, k + 1, enabledDictionaryMap)

\* (mutant) the length of the last candidate with hits, not the maximum
LastOriginalTextLength(originalLength, d) ==
    IF ~d.isDictionaryDeinflection THEN Len(d.originalText) ELSE originalLength

\* originalTextLength for one deinflection that has database entries.
UpdateOriginalTextLength(originalLength, d) ==
    IF ~d.isDictionaryDeinflection THEN Max(originalLength, Len(d.originalText)) ELSE originalLength

\* The outer loop; acc is [dictionaryEntries, ids, heap, originalTextLength].
RECURSIVE FindTermsInternalLoop(_, _, _, _)
FindTermsInternalLoop(acc, ds, k, enabledDictionaryMap) ==
    IF k > Len(ds) THEN acc
    ELSE IF Len(ds[k].databaseEntries) = 0
         THEN FindTermsInternalLoop(acc, ds, k + 1, enabledDictionaryMap)
         ELSE Let(ProcessDatabaseEntries(
                      [dictionaryEntries |-> acc.dictionaryEntries, ids |-> acc.ids, heap |-> acc.heap],
                      ds[k], 1, enabledDictionaryMap), LAMBDA r :
                  FindTermsInternalLoop(
                      [dictionaryEntries |-> r.dictionaryEntries, ids |-> r.ids, heap |-> r.heap,
                       originalTextLength |-> UpdateOriginalTextLength(acc.originalTextLength, ds[k])],
                      ds, k + 1, enabledDictionaryMap))

(***************************************************************************)
(* Data collection: the _addUnique... functions and the grouped entry.     *)
(***************************************************************************)
\* _createMapKey: JSON.stringify is one-to-one on the arrays it is given, so
\* a key is the array itself.
CreateMapKey(array) == array

\* A stable sort by insertion, for Array.prototype.sort with a comparator:
\* before[i, j] is compare(s[i], s[j]) < 0, and the positions are sorted.
\* For a comparator that is a strict weak order this is the one order the
\* language fixes; for an inconsistent comparator the language leaves the
\* order to the engine, and this is one of the orders it may produce.
InsertSorted(sorted, x, before) ==
    Let({ j \in 1..Len(sorted) : ~before[x, sorted[j]] }, LAMBDA stay :
    Let(IF stay = {} THEN 0 ELSE CHOOSE j \in stay : \A j2 \in stay : j2 <= j, LAMBDA p :
        SubSeq(sorted, 1, p) \o <<x>> \o SubSeq(sorted, p + 1, Len(sorted))))

StableSort(s, before) ==
    LET sortedPrefix[k \in 0..Len(s)] ==
            IF k = 0 THEN <<>> ELSE InsertSorted(sortedPrefix[k - 1], k, before)
    IN  Let(sortedPrefix[Len(s)], LAMBDA order : [i \in 1..Len(s) |-> s[order[i]]])

\* _addUniqueSimple
RECURSIVE AddUniqueSimple(_, _)
AddUniqueSimple(list, newItems) ==
    IF newItems = <<>> THEN list
    ELSE AddUniqueSimple(IF Includes(list, Head(newItems)) THEN list ELSE Append(list, Head(newItems)),
                         Tail(newItems))

\* _addUniqueSources
RECURSIVE AddUniqueSourcesLoop(_, _)
AddUniqueSourcesLoop(sources, newSources) ==
    IF newSources = <<>> THEN sources
    ELSE LET n == Head(newSources)
         IN  Let({ i \in 1..Len(sources) :
                     /\ sources[i].deinflectedText = n.deinflectedText
                     /\ sources[i].transformedText = n.transformedText
                     /\ sources[i].originalText = n.originalText
                     /\ sources[i].matchType = n.matchType
                     /\ sources[i].matchSource = n.matchSource }, LAMBDA same :
             IF same = {} THEN AddUniqueSourcesLoop(Append(sources, n), Tail(newSources))
             ELSE Let(CHOOSE i \in same : \A j \in same : i <= j, LAMBDA i :
                      AddUniqueSourcesLoop(
                          IF n.isPrimary THEN [sources EXCEPT ![i].isPrimary = TRUE] ELSE sources,
                          Tail(newSources))))

AddUniqueSources(sources, newSources) ==
    IF Len(newSources) = 0 THEN sources
    ELSE IF Len(sources) = 0 THEN newSources
    ELSE AddUniqueSourcesLoop(sources, newSources)

\* _addUniqueTagGroups
RECURSIVE AddUniqueTagGroups(_, _)
AddUniqueTagGroups(tagGroups, newTagGroups) ==
    IF newTagGroups = <<>> THEN tagGroups
    ELSE LET n == Head(newTagGroups)
         IN  Let({ i \in 1..Len(tagGroups) : tagGroups[i].dictionary = n.dictionary }, LAMBDA same :
             IF same = {} THEN AddUniqueTagGroups(Append(tagGroups, n), Tail(newTagGroups))
             ELSE Let(CHOOSE i \in same : \A j \in same : i <= j, LAMBDA i :
                      AddUniqueTagGroups(
                          [tagGroups EXCEPT ![i].tagNames = AddUniqueSimple(@, n.tagNames)],
                          Tail(newTagGroups))))

\* _addTermHeadwords: acc is [headwords, headwordIndexMap]; headwords are the
\* values of the Map in insertion order.
RECURSIVE AddTermHeadwordsLoop(_, _)
AddTermHeadwordsLoop(acc, headwords) ==
    IF headwords = <<>> THEN acc
    ELSE LET h == Head(headwords)
             key == CreateMapKey(<<h.term, h.reading>>)
             found == { i \in 1..Len(acc.headwords) :
                          CreateMapKey(<<acc.headwords[i].term, acc.headwords[i].reading>>) = key }
         IN  Let(IF found = {}
                 THEN Append(acc.headwords,
                             CreateTermHeadword(Len(acc.headwords), h.term, h.reading, <<>>, <<>>, <<>>))
                 ELSE acc.headwords, LAMBDA hs :
             Let(CHOOSE i \in 1..Len(hs) : CreateMapKey(<<hs[i].term, hs[i].reading>>) = key, LAMBDA at :
             Let([hs EXCEPT ![at].sources = AddUniqueSources(@, h.sources),
                            ![at].tags = AddUniqueTagGroups(@, h.tags),
                            ![at].wordClasses = AddUniqueSimple(@, h.wordClasses)], LAMBDA merged :
                 AddTermHeadwordsLoop(
                     [headwords |-> merged,
                      headwordIndexMap |-> Append(acc.headwordIndexMap, merged[at].index)],
                     Tail(headwords)))))

AddTermHeadwords(headwordsMap, headwords) ==
    AddTermHeadwordsLoop([headwords |-> headwordsMap, headwordIndexMap |-> <<>>], headwords)

\* _addUniqueTermHeadwordIndex: the binary search and the splice.
RECURSIVE HeadwordIndexSearch(_, _, _, _)
HeadwordIndexSearch(headwordIndices, headwordIndex, start, end) ==
    IF start < end
    THEN LET mid == (start + end) \div 2
             value == headwordIndices[mid + 1]
         IN  IF headwordIndex = value THEN -1
             ELSE IF headwordIndex > value
                  THEN HeadwordIndexSearch(headwordIndices, headwordIndex, mid + 1, end)
                  ELSE HeadwordIndexSearch(headwordIndices, headwordIndex, start, mid)
    ELSE start

AddUniqueTermHeadwordIndex(headwordIndices, headwordIndex) ==
    IF Len(headwordIndices) = 0 THEN <<headwordIndex>>
    ELSE Let(HeadwordIndexSearch(headwordIndices, headwordIndex, 0, Len(headwordIndices)), LAMBDA start :
             IF start = -1 THEN headwordIndices
             ELSE IF start < Len(headwordIndices) /\ headwordIndices[start + 1] = headwordIndex
                  THEN headwordIndices
                  ELSE SubSeq(headwordIndices, 1, start) \o <<headwordIndex>>
                       \o SubSeq(headwordIndices, start + 1, Len(headwordIndices)))

RECURSIVE AddUniqueTermHeadwordIndices(_, _, _)
AddUniqueTermHeadwordIndices(newHeadwordIndices, headwordIndices, headwordIndexMap) ==
    IF headwordIndices = <<>> THEN newHeadwordIndices
    ELSE AddUniqueTermHeadwordIndices(
             AddUniqueTermHeadwordIndex(newHeadwordIndices, headwordIndexMap[Head(headwordIndices) + 1]),
             Tail(headwordIndices), headwordIndexMap)

\* headwordIndexMap[headwordIndex]
MapHeadwordIndex(headwordIndexMap, headwordIndex) == headwordIndexMap[headwordIndex + 1]

\* _addTermDefinitionsFast
RECURSIVE AddTermDefinitionsFast(_, _, _)
AddTermDefinitionsFast(definitions, newDefinitions, headwordIndexMap) ==
    IF newDefinitions = <<>> THEN definitions
    ELSE LET n == Head(newDefinitions)
             headwordIndicesNew == [k \in 1..Len(n.headwordIndices) |->
                                       MapHeadwordIndex(headwordIndexMap, n.headwordIndices[k])]
         IN  AddTermDefinitionsFast(
                 Append(definitions,
                        CreateTermDefinition(Len(definitions), headwordIndicesNew, n.dictionary,
                            n.dictionaryIndex, n.dictionaryPriority, n.id, n.score, n.sequences,
                            n.isPrimary, n.tags, n.entries)),
                 Tail(newDefinitions), headwordIndexMap)

\* _addTermDefinitions; the definitions map is keyed by [dictionary, ...entries],
\* which no definition ever changes, so a lookup is a search of definitions.
RECURSIVE AddTermDefinitions(_, _, _)
AddTermDefinitions(definitions, newDefinitions, headwordIndexMap) ==
    IF newDefinitions = <<>> THEN definitions
    ELSE LET n == Head(newDefinitions)
             key == CreateMapKey(<<n.dictionary>> \o n.entries)
             found == { i \in 1..Len(definitions) :
                          CreateMapKey(<<definitions[i].dictionary>> \o definitions[i].entries) = key }
         IN  Let(IF found = {}
                 THEN Append(definitions,
                             CreateTermDefinition(Len(definitions), <<>>, n.dictionary, n.dictionaryIndex,
                                 n.dictionaryPriority, n.id, n.score, n.sequences, n.isPrimary,
                                 <<>>, n.entries))
                 ELSE Let(CHOOSE i \in found : TRUE, LAMBDA i :
                          [definitions EXCEPT
                              ![i].isPrimary = (@ \/ n.isPrimary),
                              ![i].sequences = AddUniqueSimple(@, n.sequences)]), LAMBDA ds :
             Let(CHOOSE i \in 1..Len(ds) : CreateMapKey(<<ds[i].dictionary>> \o ds[i].entries) = key,
                 LAMBDA at :
                 AddTermDefinitions(
                     [ds EXCEPT ![at].headwordIndices =
                                    AddUniqueTermHeadwordIndices(@, n.headwordIndices, headwordIndexMap),
                                ![at].tags = AddUniqueTagGroups(@, n.tags)],
                     Tail(newDefinitions), headwordIndexMap)))

\* _createGroupedDictionaryEntry.  The group is never empty, so the folds
\* that start from Number.MIN_SAFE_INTEGER / MAX_SAFE_INTEGER are the
\* maximum / minimum over the group.
RECURSIVE GroupHeadwords(_, _, _)
GroupHeadwords(entries, k, acc) ==
    IF k > Len(entries) THEN acc
    ELSE Let(AddTermHeadwords(acc.headwords, entries[k].headwords), LAMBDA r :
             GroupHeadwords(entries, k + 1,
                 [headwords |-> r.headwords,
                  definitionEntries |-> Append(acc.definitionEntries,
                      [index |-> Len(acc.definitionEntries), dictionaryEntry |-> entries[k],
                       headwordIndexMap |-> r.headwordIndexMap])]))

RECURSIVE GroupDefinitions(_, _, _, _)
GroupDefinitions(definitionEntries, k, checkDuplicateDefinitions, definitions) ==
    IF k > Len(definitionEntries) THEN definitions
    ELSE GroupDefinitions(definitionEntries, k + 1, checkDuplicateDefinitions,
             IF checkDuplicateDefinitions
             THEN AddTermDefinitions(definitions, definitionEntries[k].dictionaryEntry.definitions,
                                     definitionEntries[k].headwordIndexMap)
             ELSE AddTermDefinitionsFast(definitions, definitionEntries[k].dictionaryEntry.definitions,
                                         definitionEntries[k].headwordIndexMap))

RECURSIVE GroupInflectionHypotheses(_, _, _)
GroupInflectionHypotheses(entries, k, current) ==
    IF k > Len(entries) THEN current
    ELSE GroupInflectionHypotheses(entries, k + 1,
             IF entries[k].isPrimary
                /\ (current = Null \/ Len(entries[k].inflectionHypotheses) < Len(current[1]))
             THEN Some(entries[k].inflectionHypotheses)
             ELSE current)

SetMax(S) == CHOOSE x \in S : \A y \in S : y <= x
SetMin(S) == CHOOSE x \in S : \A y \in S : x <= y

\* (mutant) the transformed text length is the maximum over all entries
CreateGroupedDictionaryEntryMaxOfAll(entries, checkDuplicateDefinitions0) ==
    Let(GroupHeadwords(entries, 1, [headwords |-> <<>>, definitionEntries |-> <<>>]), LAMBDA g :
    Let(GroupInflectionHypotheses(entries, 1, Null), LAMBDA inflectionHypotheses :
    LET checkDuplicateDefinitions == checkDuplicateDefinitions0 /\ Len(g.definitionEntries) > 1
        all == 1..Len(entries)
        primary == { k \in all : entries[k].isPrimary }
        headwordsArray == g.headwords
        sourceTermExactMatchCount ==
            Cardinality({ i \in 1..Len(headwordsArray) :
                \E j \in 1..Len(headwordsArray[i].sources) :
                    /\ headwordsArray[i].sources[j].isPrimary
                    /\ headwordsArray[i].sources[j].matchSource = "term" })
    IN  CreateTermDictionaryEntry(
            primary # {},
            IF inflectionHypotheses # Null THEN inflectionHypotheses[1] ELSE <<>>,
            SetMax({ entries[k].score : k \in all }),
            SetMin({ entries[k].dictionaryIndex : k \in all }),
            SetMax({ entries[k].dictionaryPriority : k \in all }),
            sourceTermExactMatchCount,
            SetMax({0} \cup { entries[k].maxTransformedTextLength : k \in all }),
            headwordsArray,
            GroupDefinitions(g.definitionEntries, 1, checkDuplicateDefinitions, <<>>))))

CreateGroupedDictionaryEntry(entries, checkDuplicateDefinitions0) ==
    Let(GroupHeadwords(entries, 1, [headwords |-> <<>>, definitionEntries |-> <<>>]), LAMBDA g :
    Let(GroupInflectionHypotheses(entries, 1, Null), LAMBDA inflectionHypotheses :
    LET checkDuplicateDefinitions == checkDuplicateDefinitions0 /\ Len(g.definitionEntries) > 1
        all == 1..Len(entries)
        primary == { k \in all : entries[k].isPrimary }
        headwordsArray == g.headwords
        sourceTermExactMatchCount ==
            Cardinality({ i \in 1..Len(headwordsArray) :
                \E j \in 1..Len(headwordsArray[i].sources) :
                    /\ headwordsArray[i].sources[j].isPrimary
                    /\ headwordsArray[i].sources[j].matchSource = "term" })
    IN  CreateTermDictionaryEntry(
            primary # {},
            IF inflectionHypotheses # Null THEN inflectionHypotheses[1] ELSE <<>>,
            SetMax({ entries[k].score : k \in all }),
            SetMin({ entries[k].dictionaryIndex : k \in all }),
            SetMax({ entries[k].dictionaryPriority : k \in all }),
            sourceTermExactMatchCount,
            SetMax({0} \cup { entries[k].maxTransformedTextLength : k \in primary }),
            headwordsArray,
            GroupDefinitions(g.definitionEntries, 1, checkDuplicateDefinitions, <<>>))))

\* _groupDictionaryEntriesByHeadword; the key holds the hypothesis objects as
\* JSON.stringify sees them at that moment.
HeadwordGroupKey(entry, hp) ==
    CreateMapKey(<<entry.headwords[1].term, entry.headwords[1].reading>>
                 \o [k \in 1..Len(entry.inflectionHypotheses) |-> hp[entry.inflectionHypotheses[k]]])

GroupDictionaryEntriesByHeadword(entries, hp) ==
    Let(UniqueInOrder([k \in 1..Len(entries) |-> HeadwordGroupKey(entries[k], hp)], {}), LAMBDA keys :
        [g \in 1..Len(keys) |->
            CreateGroupedDictionaryEntry(
                SelectSeq(entries, LAMBDA e : HeadwordGroupKey(e, hp) = keys[g]), FALSE)])

(***************************************************************************)
(* Merge mode: _getRelatedDictionaryEntries.  A group is [ids,              *)
(* dictionaryEntries]; groupedDictionaryEntries and sequenceList are        *)
(* parallel; the ungrouped map is its [id, dictionaryEntry] pairs in        *)
(* insertion order.                                                         *)
(***************************************************************************)
MapDelete(pairs, id) == SelectSeq(pairs, LAMBDA q : q.id # id)

MapSet(pairs, id, dictionaryEntry) ==
    IF \E i \in 1..Len(pairs) : pairs[i].id = id
    THEN [i \in 1..Len(pairs) |->
             IF pairs[i].id = id THEN [id |-> id, dictionaryEntry |-> dictionaryEntry] ELSE pairs[i]]
    ELSE Append(pairs, [id |-> id, dictionaryEntry |-> dictionaryEntry])

\* (mutant) an entry is grouped by its sequence whatever its dictionary
IsSequencedAnywhere(mainDictionary, dictionary, sequence) == sequence >= 0

\* mainDictionary === dictionary && sequence >= 0
IsSequencedInMain(mainDictionary, dictionary, sequence) ==
    mainDictionary = Some(dictionary) /\ sequence >= 0

\* The first loop; acc is [sequenceList, grouped, ungrouped].
RECURSIVE RelatedGroupsLoop(_, _, _, _)
RelatedGroupsLoop(entries, k, mainDictionary, acc) ==
    IF k > Len(entries) THEN acc
    ELSE LET dictionaryEntry == entries[k]
             id == dictionaryEntry.definitions[1].id
             dictionary == dictionaryEntry.definitions[1].dictionary
             sequence == dictionaryEntry.definitions[1].sequences[1]
         IN  RelatedGroupsLoop(entries, k + 1, mainDictionary,
                 IF IsSequencedInMain(mainDictionary, dictionary, sequence)
                 THEN Let(\A g \in 1..Len(acc.sequenceList) : acc.sequenceList[g].query # sequence,
                          LAMBDA isNew :
                      Let(IF isNew
                          THEN Append(acc.sequenceList, [query |-> sequence, dictionary |-> dictionary])
                          ELSE acc.sequenceList, LAMBDA sl :
                      Let(CHOOSE g \in 1..Len(sl) : sl[g].query = sequence, LAMBDA g :
                      LET gs == IF isNew
                                THEN Append(acc.grouped, [ids |-> {}, dictionaryEntries |-> <<>>])
                                ELSE acc.grouped
                      IN  [acc EXCEPT
                              !.sequenceList = sl,
                              !.grouped = [gs EXCEPT ![g].dictionaryEntries = Append(@, dictionaryEntry),
                                                     ![g].ids = @ \cup {id}]])))
                 ELSE [acc EXCEPT !.ungrouped = MapSet(@, id, dictionaryEntry)])

\* _addRelatedDictionaryEntries, after the reply; acc is [grouped, ungrouped].
RECURSIVE AddRelatedDictionaryEntries(_, _, _)
AddRelatedDictionaryEntries(databaseEntries, enabledDictionaryMap, acc) ==
    IF databaseEntries = <<>> THEN acc
    ELSE LET databaseEntry == Head(databaseEntries)
             g == databaseEntry.index + 1
             id == databaseEntry.id
             term == databaseEntry.term
         IN  AddRelatedDictionaryEntries(Tail(databaseEntries), enabledDictionaryMap,
                 IF id \in acc.grouped[g].ids THEN acc
                 ELSE [grouped |-> [acc.grouped EXCEPT
                           ![g].dictionaryEntries = Append(@,
                               CreateTermDictionaryEntryFromDatabaseEntry(databaseEntry, term, term, term,
                                   <<>>, FALSE, enabledDictionaryMap)),
                           ![g].ids = @ \cup {id}],
                       ungrouped |-> MapDelete(acc.ungrouped, id)])

\* _sortTermDictionaryEntriesById
EntryIdBefore(a, b) == a.definitions[1].id - b.definitions[1].id < 0

SortTermDictionaryEntriesById(entries) ==
    IF Len(entries) <= 1 THEN entries ELSE StableSort(entries, [i \in 1..Len(entries), j \in 1..Len(entries) |-> EntryIdBefore(entries[i], entries[j])])

\* _getSecondarySearchDictionaryMap
GetSecondarySearchDictionaryMap(enabledDictionaryMap) ==
    SelectSeq(enabledDictionaryMap, LAMBDA m : m.allowSecondarySearches)

\* _addSecondaryRelatedDictionaryEntries, "prepare grouping info": the
\* termList and, parallel to it, the targets' group lists (group numbers).
RECURSIVE SecondaryTargets(_, _)
SecondaryTargets(members, acc) ==
    IF members = <<>> THEN acc
    ELSE LET m == Head(members)
             term == m.dictionaryEntry.headwords[1].term
             reading == m.dictionaryEntry.headwords[1].reading
         IN  Let(\A t \in 1..Len(acc.termList) :
                     CreateMapKey(<<acc.termList[t].term, acc.termList[t].reading>>)
                         # CreateMapKey(<<term, reading>>), LAMBDA isNew :
             Let(IF isNew THEN Append(acc.termList, [term |-> term, reading |-> reading])
                 ELSE acc.termList, LAMBDA tl :
             Let(CHOOSE t \in 1..Len(tl) : tl[t].term = term /\ tl[t].reading = reading, LAMBDA t :
             LET tg == IF isNew THEN Append(acc.targetList, [groups |-> <<>>]) ELSE acc.targetList
             IN  SecondaryTargets(Tail(members),
                     [termList |-> tl, targetList |-> [tg EXCEPT ![t].groups = Append(@, m.group)]]))))

\* One entry pushed to every group of a target that lacks its id.
RECURSIVE PushToGroups(_, _, _, _)
PushToGroups(grouped, groups, id, dictionaryEntry) ==
    IF groups = <<>> THEN grouped
    ELSE PushToGroups(
             IF id \in grouped[Head(groups)].ids THEN grouped
             ELSE [grouped EXCEPT ![Head(groups)].dictionaryEntries = Append(@, dictionaryEntry),
                                  ![Head(groups)].ids = @ \cup {id}],
             Tail(groups), id, dictionaryEntry)

\* "Group unsequenced dictionary entries with sequenced entries that have a
\* matching [term, reading]"; acc is [grouped, ungrouped].
RECURSIVE AbsorbUngrouped(_, _, _, _)
AbsorbUngrouped(pairs, termList, targetList, acc) ==
    IF pairs = <<>> THEN acc
    ELSE LET id == Head(pairs).id
             dictionaryEntry == Head(pairs).dictionaryEntry
             found == { t \in 1..Len(termList) :
                          /\ termList[t].term = dictionaryEntry.headwords[1].term
                          /\ termList[t].reading = dictionaryEntry.headwords[1].reading }
         IN  AbsorbUngrouped(Tail(pairs), termList, targetList,
                 IF found = {} THEN acc
                 ELSE LET t == CHOOSE t \in found : TRUE
                      IN  [grouped |-> PushToGroups(acc.grouped, targetList[t].groups, id, dictionaryEntry),
                           ungrouped |-> MapDelete(acc.ungrouped, id)])

\* The synchronous first half of _addSecondaryRelatedDictionaryEntries.
SecondaryPrepare(grouped, ungrouped) ==
    LET members == Flatten([g \in 1..Len(grouped) |->
                       [k \in 1..Len(grouped[g].dictionaryEntries) |->
                           [group |-> g, dictionaryEntry |-> grouped[g].dictionaryEntries[k]]]])
    IN  Let(SecondaryTargets(members, [termList |-> <<>>, targetList |-> <<>>]), LAMBDA targets :
        Let(AbsorbUngrouped(ungrouped, targets.termList, targets.targetList,
                            [grouped |-> grouped, ungrouped |-> ungrouped]), LAMBDA absorbed :
            [termList |-> targets.termList, targetList |-> targets.targetList,
             grouped |-> absorbed.grouped, ungrouped |-> absorbed.ungrouped]))

\* _sortDatabaseEntriesByIndex
DatabaseEntryIndexBefore(a, b) == a.index - b.index < 0

SortDatabaseEntriesByIndex(databaseEntries) ==
    IF Len(databaseEntries) <= 1 THEN databaseEntries
    ELSE StableSort(databaseEntries,
             [i \in 1..Len(databaseEntries), j \in 1..Len(databaseEntries) |-> DatabaseEntryIndexBefore(databaseEntries[i], databaseEntries[j])])

\* One secondary database entry pushed, as a new entry per group.
RECURSIVE PushSecondary(_, _, _, _, _)
PushSecondary(acc, groups, databaseEntry, sourceText, enabledDictionaryMap) ==
    IF groups = <<>> THEN acc
    ELSE PushSecondary(
             IF databaseEntry.id \in acc.grouped[Head(groups)].ids THEN acc
             ELSE [grouped |-> [acc.grouped EXCEPT
                       ![Head(groups)].dictionaryEntries = Append(@,
                           CreateTermDictionaryEntryFromDatabaseEntry(databaseEntry, sourceText,
                               sourceText, sourceText, <<>>, FALSE, enabledDictionaryMap)),
                       ![Head(groups)].ids = @ \cup {databaseEntry.id}],
                   ungrouped |-> MapDelete(acc.ungrouped, databaseEntry.id)],
             Tail(groups), databaseEntry, sourceText, enabledDictionaryMap)

\* The second half, after the reply of findTermsExactBulk.
RECURSIVE AddSecondaryDatabaseEntries(_, _, _, _, _)
AddSecondaryDatabaseEntries(databaseEntries, termList, targetList, enabledDictionaryMap, acc) ==
    IF databaseEntries = <<>> THEN acc
    ELSE LET databaseEntry == Head(databaseEntries)
             sourceText == termList[databaseEntry.index + 1].term
         IN  AddSecondaryDatabaseEntries(Tail(databaseEntries), termList, targetList, enabledDictionaryMap,
                 PushSecondary(acc, targetList[databaseEntry.index + 1].groups, databaseEntry,
                               sourceText, enabledDictionaryMap))

\* The end of _getRelatedDictionaryEntries.
RelatedDictionaryEntries(grouped, ungrouped, hp) ==
    [g \in 1..Len(grouped) |-> CreateGroupedDictionaryEntry(grouped[g].dictionaryEntries, TRUE)]
    \o GroupDictionaryEntriesByHeadword(
           [k \in 1..Len(ungrouped) |-> ungrouped[k].dictionaryEntry], hp)

(***************************************************************************)
(* Removing data: _removeExcludedDefinitions.                              *)
(***************************************************************************)
\* _removeArrayItemsWithDictionary (the array after the removal)
RemoveArrayItemsWithDictionary(array, excludeDictionaryDefinitions) ==
    SelectSeq(array, LAMBDA item : item.dictionary \notin excludeDictionaryDefinitions)

\* _removeTagGroupsWithDictionary
RemoveTagGroupsWithDictionary(array, excludeDictionaryDefinitions) ==
    [k \in 1..Len(array) |->
        [array[k] EXCEPT !.tags = RemoveArrayItemsWithDictionary(@, excludeDictionaryDefinitions)]]

\* (mutant) the remap sends every kept headword to its old index
IndexRemapIdentity(headwordCount, removeHeadwordIndices) ==
    [old \in (0..(headwordCount - 1)) \ removeHeadwordIndices |-> old]

\* indexRemap of _removeUnusedHeadwords: old index -> number of kept
\* headwords before it.
IndexRemap(headwordCount, removeHeadwordIndices) ==
    [old \in (0..(headwordCount - 1)) \ removeHeadwordIndices |->
        Cardinality({ o \in 0..(old - 1) : o \notin removeHeadwordIndices })]

\* _updateDefinitionHeadwordIndices
UpdateDefinitionHeadwordIndices(definitions, indexRemap) ==
    [k \in 1..Len(definitions) |->
        [definitions[k] EXCEPT !.headwordIndices =
            Let(SelectSeq(@, LAMBDA i : i \in DOMAIN indexRemap), LAMBDA kept :
                [j \in 1..Len(kept) |-> indexRemap[kept[j]]])]]

\* _updateArrayItemsHeadwordIndex
UpdateArrayItemsHeadwordIndex(array, indexRemap) ==
    Let(SelectSeq(array, LAMBDA item : item.headwordIndex \in DOMAIN indexRemap), LAMBDA kept :
        [j \in 1..Len(kept) |-> [kept[j] EXCEPT !.headwordIndex = indexRemap[@]]])

\* _removeUnusedHeadwords: the headwords are spliced out; the index field of
\* the headwords that stay is not written.
RemoveUnusedHeadwords(dictionaryEntry) ==
    LET headwords == dictionaryEntry.headwords
        usedIndices == UNION { Range(dictionaryEntry.definitions[k].headwordIndices) :
                                 k \in 1..Len(dictionaryEntry.definitions) }
    IN  Let((0..(Len(headwords) - 1)) \ usedIndices, LAMBDA removeHeadwordIndices :
        Let(IndexRemap(Len(headwords), removeHeadwordIndices), LAMBDA indexRemap :
        Let(SelectSeq([i \in 1..Len(headwords) |-> i],
                      LAMBDA i : (i - 1) \notin removeHeadwordIndices), LAMBDA keptPositions :
            IF removeHeadwordIndices = {} THEN dictionaryEntry
            ELSE [dictionaryEntry EXCEPT
                     !.headwords = [j \in 1..Len(keptPositions) |-> headwords[keptPositions[j]]],
                     !.definitions = UpdateDefinitionHeadwordIndices(@, indexRemap),
                     !.pronunciations = UpdateArrayItemsHeadwordIndex(@, indexRemap),
                     !.frequencies = UpdateArrayItemsHeadwordIndex(@, indexRemap)])))

\* The body of the loop of _removeExcludedDefinitions for one entry: Null
\* when the entry is removed.
RemoveExcludedFromEntry(dictionaryEntry, excludeDictionaryDefinitions) ==
    Let(RemoveArrayItemsWithDictionary(dictionaryEntry.definitions, excludeDictionaryDefinitions),
        LAMBDA definitions :
    LET definitionsChanged == Len(definitions) # Len(dictionaryEntry.definitions)
        e == [dictionaryEntry EXCEPT
                 !.definitions = RemoveTagGroupsWithDictionary(definitions, excludeDictionaryDefinitions),
                 !.pronunciations = RemoveArrayItemsWithDictionary(@, excludeDictionaryDefinitions),
                 !.frequencies = RemoveArrayItemsWithDictionary(@, excludeDictionaryDefinitions),
                 !.headwords = RemoveTagGroupsWithDictionary(@, excludeDictionaryDefinitions)]
    IN  IF ~definitionsChanged THEN Some(e)
        ELSE IF Len(definitions) = 0 THEN Null
        ELSE Some(RemoveUnusedHeadwords(e)))

RemoveExcludedDefinitions(entries, excludeDictionaryDefinitions) ==
    Flatten([k \in 1..Len(entries) |-> RemoveExcludedFromEntry(entries[k], excludeDictionaryDefinitions)])

(***************************************************************************)
(* Metadata: _addTermMeta.  A JavaScript value of a frequency record is a   *)
(* record tagged with its typeof.                                           *)
(***************************************************************************)
JsNumber(n) == [type |-> "number", number |-> n]
JsString(str) == [type |-> "string", string |-> str]
JsObject(fields) == [type |-> "object", fields |-> fields]

\* The term-meta rows of the database (dictionary-database.js is outside the
\* source).
TermMetaRows ==
    << [term |-> <<"a">>, mode |-> "freq", dictionary |-> "F", data |-> JsNumber(5)],
       [term |-> <<"a">>, mode |-> "freq", dictionary |-> "M",
        data |-> JsObject([reading |-> JsString(<<"a">>), frequency |-> JsString(<<"7", "x">>)])],
       [term |-> <<"a", "s">>, mode |-> "freq", dictionary |-> "F",
        data |-> JsObject([value |-> JsNumber(3), displayValue |-> JsString(<<"3", "x">>)])],
       [term |-> <<"s", "a">>, mode |-> "pitch", dictionary |-> "E",
        data |-> JsObject([reading |-> JsString(<<"a">>),
                           pitches |-> << [position |-> 1, tags |-> <<>>] >>])],
       [term |-> <<"a">>, mode |-> "freq", dictionary |-> "F", data |-> JsNumber(9)] >>

\* findTermMetaBulk: per queried term, the meta rows of the enabled
\* dictionaries.
FindTermMetaBulk(termList, enabledDictionaryMap) ==
    Let(SelectSeq(TermMetaRows, LAMBDA r : MapHas(enabledDictionaryMap, r.dictionary)), LAMBDA rows :
        Flatten([i \in 1..Len(termList) |->
            Let(SelectSeq(rows, LAMBDA r : r.term = termList[i]), LAMBDA m :
                [k \in 1..Len(m) |->
                    [index |-> i - 1, mode |-> m[k].mode, data |-> m[k].data,
                     dictionary |-> m[k].dictionary]])]))

\* _convertStringToNumber on strings without sign, fraction or exponent: the
\* first run of digits, read as a number; 0 when there is none.
DigitValue(ch) ==
    CASE ch = "0" -> 0 [] ch = "1" -> 1 [] ch = "2" -> 2 [] ch = "3" -> 3 [] ch = "4" -> 4
      [] ch = "5" -> 5 [] ch = "6" -> 6 [] ch = "7" -> 7 [] ch = "8" -> 8 [] ch = "9" -> 9
      [] OTHER -> -1

RECURSIVE ParseDigits(_, _, _)
ParseDigits(str, k, value) ==
    IF k > Len(str) \/ DigitValue(str[k]) < 0 THEN value
    ELSE ParseDigits(str, k + 1, value * 10 + DigitValue(str[k]))

ConvertStringToNumber(str) ==
    Let({ k \in 1..Len(str) : DigitValue(str[k]) >= 0 }, LAMBDA starts :
        IF starts = {} THEN 0
        ELSE ParseDigits(str, CHOOSE k \in starts : \A k2 \in starts : k <= k2, 0))

\* _getFrequencyInfo: frequency is a JavaScript value; the result's frequency
\* is a number.
GetFrequencyInfo(frequency) ==
    IF frequency.type = "object"
    THEN LET value == IF "value" \in DOMAIN frequency.fields THEN frequency.fields.value
                      ELSE [type |-> "undefined"]
             displayValue == IF "displayValue" \in DOMAIN frequency.fields
                             THEN frequency.fields.displayValue ELSE [type |-> "undefined"]
         IN  [frequency |-> IF value.type = "number" THEN value.number ELSE 0,
              displayValue |-> IF displayValue.type = "string" THEN Some(displayValue.string) ELSE Null,
              displayValueParsed |-> FALSE]
    ELSE IF frequency.type = "number"
    THEN [frequency |-> frequency.number, displayValue |-> Null, displayValueParsed |-> FALSE]
    ELSE IF frequency.type = "string"
    THEN [frequency |-> ConvertStringToNumber(frequency.string),
          displayValue |-> Some(frequency.string), displayValueParsed |-> TRUE]
    ELSE [frequency |-> 0, displayValue |-> Null, displayValueParsed |-> FALSE]

CreateTermFrequency(index, headwordIndex, dictionary, dictionaryIndex, dictionaryPriority, hasReading, frequency, displayValue, displayValueParsed) ==
    [index |-> index, headwordIndex |-> headwordIndex, dictionary |-> dictionary,
     dictionaryIndex |-> dictionaryIndex, dictionaryPriority |-> dictionaryPriority,
     hasReading |-> hasReading, frequency |-> frequency, displayValue |-> displayValue,
     displayValueParsed |-> displayValueParsed]

CreateTermPronunciation(index, headwordIndex, dictionary, dictionaryIndex, dictionaryPriority, pitches, phoneticTranscriptions) ==
    [index |-> index, headwordIndex |-> headwordIndex, dictionary |-> dictionary,
     dictionaryIndex |-> dictionaryIndex, dictionaryPriority |-> dictionaryPriority,
     pitches |-> pitches, phoneticTranscriptions |-> phoneticTranscriptions]

\* The first loop of _addTermMeta: headwordMapKeys, and per key the reading
\* map as [reading, targets] pairs in insertion order; a target is [entry,
\* headwordIndex], entry being the position of the dictionary entry whose
\* pronunciations and frequencies the target refers to.
TermMetaTargets(entries) ==
    Let(Flatten([e \in 1..Len(entries) |->
            [i \in 1..Len(entries[e].headwords) |->
                [entry |-> e, headwordIndex |-> i - 1,
                 term |-> entries[e].headwords[i].term,
                 reading |-> entries[e].headwords[i].reading]]]), LAMBDA all :
    Let(UniqueInOrder([k \in 1..Len(all) |-> all[k].term], {}), LAMBDA headwordMapKeys :
        [headwordMapKeys |-> headwordMapKeys,
         headwordReadingMaps |-> [k \in 1..Len(headwordMapKeys) |->
             Let(SelectSeq(all, LAMBDA t : t.term = headwordMapKeys[k]), LAMBDA ofTerm :
             Let(UniqueInOrder([j \in 1..Len(ofTerm) |-> ofTerm[j].reading], {}), LAMBDA readings :
                 [r \in 1..Len(readings) |->
                     [reading |-> readings[r],
                      targets |->
                          Let(SelectSeq(ofTerm, LAMBDA t : t.reading = readings[r]), LAMBDA ts :
                              [j \in 1..Len(ts) |->
                                  [entry |-> ts[j].entry,
                                   headwordIndex |-> ts[j].headwordIndex]])]]))]]))

\* case 'freq', the loop over the targets: the variable frequency is assigned
\* from _getFrequencyInfo in every iteration and read by the next one.
RECURSIVE PushFrequencies(_, _, _, _, _, _)
PushFrequencies(entries, targets, frequency, dictionary, order, hasReading) ==
    IF targets = <<>> THEN entries
    ELSE Let(GetFrequencyInfo(frequency), LAMBDA info :
             PushFrequencies(
                 [entries EXCEPT ![Head(targets).entry].frequencies = Append(@,
                     CreateTermFrequency(Len(@), Head(targets).headwordIndex, dictionary,
                         order.index, order.priority, hasReading, info.frequency,
                         info.displayValue, info.displayValueParsed))],
                 Tail(targets), JsNumber(info.frequency), dictionary, order, hasReading))

RECURSIVE PushPronunciations(_, _, _, _, _)
PushPronunciations(entries, targets, dictionary, order, pitches) ==
    IF targets = <<>> THEN entries
    ELSE LET e == Head(targets).entry
         IN  PushPronunciations(
                 [entries EXCEPT ![e].pronunciations = Append(@,
                     CreateTermPronunciation(Len(@), Head(targets).headwordIndex, dictionary,
                         order.index, order.priority, pitches, <<>>))],
                 Tail(targets), dictionary, order, pitches)

\* The body of the loop over one reading map entry, for one meta row.
ApplyTermMeta(entries, meta, reading, targets, order) ==
    IF meta.mode = "freq"
    THEN LET data == meta.data
             hasReading == /\ data.type = "object"
                           /\ "reading" \in DOMAIN data.fields
                           /\ data.fields.reading.type = "string"
         IN  IF hasReading /\ data.fields.reading.string # reading THEN entries
             ELSE PushFrequencies(entries, targets,
                                  IF hasReading THEN data.fields.frequency ELSE data,
                                  meta.dictionary, order, hasReading)
    ELSE IF meta.mode = "pitch"
    THEN IF meta.data.fields.reading.string # reading THEN entries
         ELSE PushPronunciations(entries, targets, meta.dictionary, order,
                  [k \in 1..Len(meta.data.fields.pitches) |->
                      [position |-> meta.data.fields.pitches[k].position,
                       nasalPositions |-> <<>>, devoicePositions |-> <<>>,
                       tags |-> IF Len(meta.data.fields.pitches[k].tags) > 0
                                THEN <<CreateTagGroup(meta.dictionary, meta.data.fields.pitches[k].tags)>>
                                ELSE <<>>]])
    ELSE entries

RECURSIVE ApplyTermMetaToReadings(_, _, _, _, _)
ApplyTermMetaToReadings(entries, meta, readingMap, k, order) ==
    IF k > Len(readingMap) THEN entries
    ELSE ApplyTermMetaToReadings(
             ApplyTermMeta(entries, meta, readingMap[k].reading, readingMap[k].targets, order),
             meta, readingMap, k + 1, order)

\* The second loop of _addTermMeta, after the reply.
RECURSIVE ApplyTermMetas(_, _, _, _)
ApplyTermMetas(entries, metas, headwordReadingMaps, enabledDictionaryMap) ==
    IF metas = <<>> THEN entries
    ELSE ApplyTermMetas(
             ApplyTermMetaToReadings(entries, Head(metas), headwordReadingMaps[Head(metas).index + 1], 1,
                                     GetDictionaryOrder(Head(metas).dictionary, enabledDictionaryMap)),
             Tail(metas), headwordReadingMaps, enabledDictionaryMap)

(***************************************************************************)
(* Tags: _getTermTagTargets, _expandTagGroups, _groupTags.                  *)
(***************************************************************************)
\* The tag rows of the database (dictionary-database.js is outside the
\* source), keyed by dictionary and tag name base.
TagMetaRows ==
    << [dictionary |-> "M", name |-> <<"P">>, category |-> "popular", order |-> 0, score |-> 1,
        notes |-> "popular term"],
       [dictionary |-> "M", name |-> <<"n">>, category |-> "partOfSpeech", order |-> 1, score |-> 0,
        notes |-> "noun"],
       [dictionary |-> "M", name |-> <<"v">>, category |-> "partOfSpeech", order |-> 1, score |-> 2,
        notes |-> ""] >>

\* findTagMetaBulk: one result per item, Null (undefined) without a row.
FindTagMetaBulk(items) ==
    [i \in 1..Len(items) |->
        Let(SelectSeq(TagMetaRows, LAMBDA r : r.dictionary = items[i].dictionary
                                                 /\ r.name = items[i].query), LAMBDA rows :
            IF rows = <<>> THEN Null ELSE Some(rows[1]))]

\* String.prototype.indexOf for one character, from 0; -1 when absent.
IndexOf(str, ch) ==
    Let({ k \in 1..Len(str) : str[k] = ch }, LAMBDA at :
        IF at = {} THEN -1 ELSE (CHOOSE k \in at : \A k2 \in at : k <= k2) - 1)

\* _getNameBase
GetNameBase(name) ==
    Let(IndexOf(name, ":"), LAMBDA pos : IF pos >= 0 THEN SubSeq(name, 1, pos) ELSE name)

\* _createTag; databaseTag is Null or Some(row).
CreateTag(databaseTag, name, dictionary) ==
    LET has == databaseTag # Null
        row == databaseTag[1]
    IN  [name |-> name,
         category |-> IF has /\ row.category # "" THEN row.category ELSE "default",
         order |-> IF has THEN row.order ELSE 0,
         score |-> IF has THEN row.score ELSE 0,
         content |-> IF has /\ row.notes # "" THEN <<row.notes>> ELSE <<>>,
         dictionaries |-> <<dictionary>>,
         redundant |-> FALSE]

\* _addTagExpansionTargets over the headwords, definitions and pitches of the
\* entries, in the order of _getTermTagTargets: a target is the place of a
\* tags array and the tag groups that were there.
TagTargetsOf(entries, e) ==
    LET entry == entries[e]
        hs == [i \in 1..Len(entry.headwords) |->
                  [entry |-> e, kind |-> "headword", at |-> i, pitch |-> 0,
                   tagGroups |-> entry.headwords[i].tags]]
        ds == [i \in 1..Len(entry.definitions) |->
                  [entry |-> e, kind |-> "definition", at |-> i, pitch |-> 0,
                   tagGroups |-> entry.definitions[i].tags]]
        ps == Flatten([i \in 1..Len(entry.pronunciations) |->
                  [j \in 1..Len(entry.pronunciations[i].pitches) |->
                      [entry |-> e, kind |-> "pitch", at |-> i, pitch |-> j,
                       tagGroups |-> entry.pronunciations[i].pitches[j].tags]]])
    IN  SelectSeq(hs \o ds \o ps, LAMBDA t : Len(t.tagGroups) # 0)

GetTermTagTargets(entries) == Flatten([e \in 1..Len(entries) |-> TagTargetsOf(entries, e)])

\* The tag names a target asks for, one per occurrence, as [dictionary, tagName].
TargetTagNames(target) ==
    Flatten([g \in 1..Len(target.tagGroups) |->
                [n \in 1..Len(target.tagGroups[g].tagNames) |->
                    [dictionary |-> target.tagGroups[g].dictionary,
                     tagName |-> target.tagGroups[g].tagNames[n]]]])

\* allItems of _expandTagGroups: one item per dictionary and tag name, in the
\* order of first occurrence; query is the base of the tag name.
AllTagItems(tagTargets) ==
    Let(UniqueInOrder(Flatten([t \in 1..Len(tagTargets) |-> TargetTagNames(tagTargets[t])]), {}),
        LAMBDA names :
            [k \in 1..Len(names) |->
                [query |-> GetNameBase(names[k].tagName), dictionary |-> names[k].dictionary,
                 tagName |-> names[k].tagName]])

\* The items in the order of targetMap.entries() and dictionaryItems.values().
ItemsByDictionary(allItems) ==
    Let(UniqueInOrder([k \in 1..Len(allItems) |-> allItems[k].dictionary], {}), LAMBDA dictionaries :
        Flatten([d \in 1..Len(dictionaries) |->
                    SelectSeq(allItems, LAMBDA item : item.dictionary = dictionaries[d])]))

\* _tagCache is a sequence of [dictionary, cache], cache a sequence of
\* [query, databaseTag].
CacheHas(cache, dictionary, query) ==
    \E i \in 1..Len(cache) : /\ cache[i].dictionary = dictionary
                             /\ \E j \in 1..Len(cache[i].cache) : cache[i].cache[j].query = query

CacheGet(cache, dictionary, query) ==
    Let(CHOOSE i \in 1..Len(cache) : cache[i].dictionary = dictionary, LAMBDA i :
    Let(CHOOSE j \in 1..Len(cache[i].cache) : cache[i].cache[j].query = query, LAMBDA j :
        cache[i].cache[j].databaseTag))

CacheSet(cache, dictionary, query, databaseTag) ==
    [i \in 1..Len(cache) |->
        IF cache[i].dictionary # dictionary THEN cache[i]
        ELSE [cache[i] EXCEPT !.cache =
                 IF \E j \in 1..Len(@) : @[j].query = query
                 THEN [j \in 1..Len(@) |-> IF @[j].query = query
                                           THEN [query |-> query, databaseTag |-> databaseTag]
                                           ELSE @[j]]
                 ELSE Append(@, [query |-> query, databaseTag |-> databaseTag])]]

\* tagCache.set(dictionary, new Map()) for the dictionaries it lacks.
RECURSIVE CacheWithDictionaries(_, _)
CacheWithDictionaries(cache, dictionaries) ==
    IF dictionaries = <<>> THEN cache
    ELSE CacheWithDictionaries(
             IF \E i \in 1..Len(cache) : cache[i].dictionary = Head(dictionaries) THEN cache
             ELSE Append(cache, [dictionary |-> Head(dictionaries), cache |-> <<>>]),
             Tail(dictionaries))

\* nonCachedItems: the items whose query the cache of their dictionary lacks.
NonCachedItems(allItems, cache) ==
    SelectSeq(ItemsByDictionary(allItems), LAMBDA item : ~CacheHas(cache, item.dictionary, item.query))

\* The loop after the reply of findTagMetaBulk.
RECURSIVE CacheReplies(_, _, _, _)
CacheReplies(cache, nonCachedItems, databaseTags, i) ==
    IF i > Len(nonCachedItems) THEN cache
    ELSE CacheReplies(CacheSet(cache, nonCachedItems[i].dictionary, nonCachedItems[i].query, databaseTags[i]),
                      nonCachedItems, databaseTags, i + 1)

\* item.databaseTag for every item: from the cache as it was before the
\* query, or from the reply.
ItemDatabaseTag(item, cacheBefore, nonCachedItems, databaseTags) ==
    IF CacheHas(cacheBefore, item.dictionary, item.query)
    THEN CacheGet(cacheBefore, item.dictionary, item.query)
    ELSE databaseTags[CHOOSE i \in 1..Len(nonCachedItems) :
                         /\ nonCachedItems[i].dictionary = item.dictionary
                         /\ nonCachedItems[i].tagName = item.tagName]

\* The last loop of _expandTagGroups seen from one target: its tags in the
\* order of allItems, one per occurrence of the item in the target.
ExpandedTags(target, allItems, cacheBefore, nonCachedItems, databaseTags) ==
    Let(TargetTagNames(target), LAMBDA wanted :
        Flatten([k \in 1..Len(allItems) |->
            Let(SelectSeq(wanted, LAMBDA w : w.dictionary = allItems[k].dictionary
                                             /\ w.tagName = allItems[k].tagName), LAMBDA occurrences :
            Let(CreateTag(ItemDatabaseTag(allItems[k], cacheBefore, nonCachedItems, databaseTags),
                          allItems[k].tagName, allItems[k].dictionary), LAMBDA tag :
                [o \in 1..Len(occurrences) |-> tag]))]))

\* Intl.Collator('en-US').compare on the strings of the model: characters
\* are ranked punctuation, digits, letters (lower case first); a string that
\* is a prefix of another comes first.  Negative, zero or positive.
CharRank(ch) ==
    CASE ch = ":" -> 0 [] ch = "non-lemma" -> 1
      [] ch = "1" -> 11 [] ch = "2" -> 12 [] ch = "3" -> 13 [] ch = "7" -> 17
      [] ch = "a" -> 20 [] ch = "A" -> 21 [] ch = "n" -> 30 [] ch = "P" -> 33
      [] ch = "s" -> 40 [] ch = "S" -> 41 [] ch = "v" -> 50 [] ch = "x" -> 60
      [] OTHER -> 99

RECURSIVE StringCompare(_, _)
StringCompare(str1, str2) ==
    IF str1 = <<>> THEN (IF str2 = <<>> THEN 0 ELSE -1)
    ELSE IF str2 = <<>> THEN 1
    ELSE IF CharRank(Head(str1)) # CharRank(Head(str2))
         THEN CharRank(Head(str1)) - CharRank(Head(str2))
         ELSE StringCompare(Tail(str1), Tail(str2))

\* _mergeSimilarTags: tag i absorbs the later tags of its name and category.
RECURSIVE MergeSimilarTags(_, _)
MergeSimilarTags(tags, i) ==
    IF i > Len(tags) THEN tags
    ELSE Let({ j \in (i + 1)..Len(tags) :
                  tags[j].name = tags[i].name /\ tags[j].category = tags[i].category }, LAMBDA similar :
         Let(SelectSeq([j \in 1..Len(tags) |-> j], LAMBDA j : j \in similar), LAMBDA absorbed :
         Let(SelectSeq([j \in 1..Len(tags) |-> j], LAMBDA j : j \notin similar), LAMBDA kept :
             LET Absorb[k \in 0..Len(absorbed)] ==
                     IF k = 0 THEN tags[i]
                     ELSE LET tag2 == tags[absorbed[k]]
                          IN  [Absorb[k - 1] EXCEPT
                                  !.order = Min(@, tag2.order),
                                  !.score = Max(@, tag2.score),
                                  !.dictionaries = @ \o tag2.dictionaries,
                                  !.content = AddUniqueSimple(@, tag2.content)]
             IN  Let(Absorb[Len(absorbed)], LAMBDA tag :
                     MergeSimilarTags([k \in 1..Len(kept) |->
                                          IF kept[k] = i THEN tag ELSE tags[kept[k]]],
                                      i + 1)))))

\* compare of _groupTags
TagBefore(v1, v2) ==
    LET i == v1.order - v2.order
    IN  (IF i # 0 THEN i ELSE StringCompare(v1.name, v2.name)) < 0

\* _groupTags for one target
GroupTags(tags) ==
    IF Len(tags) <= 1 THEN tags
    ELSE Let(MergeSimilarTags(tags, 1), LAMBDA merged :
             StableSort(merged, [i \in 1..Len(merged), j \in 1..Len(merged) |->
                                    TagBefore(merged[i], merged[j])]))

\* The tags arrays of the targets written back: NewTags(target) for every
\* target, the empty array where there were tag groups but no target is given.
WithTags(entries, tagTargets, newTags) ==
    LET TagsAt(e, kind, at, pitch, old) ==
            LET found == { t \in 1..Len(tagTargets) :
                             /\ tagTargets[t].entry = e /\ tagTargets[t].kind = kind
                             /\ tagTargets[t].at = at /\ tagTargets[t].pitch = pitch }
            IN  IF found = {} THEN old ELSE newTags[CHOOSE t \in found : TRUE]
    IN  [e \in 1..Len(entries) |->
            [entries[e] EXCEPT
                !.headwords = [i \in 1..Len(@) |->
                    [@[i] EXCEPT !.tags = TagsAt(e, "headword", i, 0, @)]],
                !.definitions = [i \in 1..Len(@) |->
                    [@[i] EXCEPT !.tags = TagsAt(e, "definition", i, 0, @)]],
                !.pronunciations = [i \in 1..Len(@) |->
                    [@[i] EXCEPT !.pitches = [j \in 1..Len(@) |->
                        [@[j] EXCEPT !.tags = TagsAt(e, "pitch", i, j, @)]]]]]]

NoTags(tagTargets) == [t \in 1..Len(tagTargets) |-> <<>>]

\* _clearTermTags: the targets are collected, which empties their tags.
ClearTermTags(entries) ==
    Let(GetTermTagTargets(entries), LAMBDA tagTargets :
        WithTags(entries, tagTargets, NoTags(tagTargets)))

(***************************************************************************)
(* Sorting and the last passes of findTerms.                               *)
(***************************************************************************)
\* Stands for Number.MAX_SAFE_INTEGER: above every frequency of the model.
MaxSafeInteger == 1000000000

\* (mutant) without a frequency the order is 0 in either direction
FrequencyOrderZeroWhenNone(found, ascending) ==
    IF found # {}
    THEN (IF ascending THEN SetMin(found) ELSE -SetMax(found))
    ELSE 0

\* The frequencyOrder computed from the frequencies found, for the entry and
\* for a definition alike.
FrequencyOrder(found, ascending) ==
    IF found # {}
    THEN (IF ascending THEN SetMin(found) ELSE -SetMax(found))
    ELSE (IF ascending THEN MaxSafeInteger ELSE 0)

\* _updateSortFrequencies for one entry; frequencyMap keeps the last
\* frequency set for a headword index.
UpdateSortFrequency(entry, dictionary, ascending) ==
    Let(SelectSeq(entry.frequencies, LAMBDA item : item.dictionary = dictionary), LAMBDA items :
    Let({ items[k].headwordIndex : k \in 1..Len(items) }, LAMBDA indices :
    Let([h \in indices |->
            items[SetMax({ k \in 1..Len(items) : items[k].headwordIndex = h })].frequency],
        LAMBDA frequencyMap :
        [entry EXCEPT
            !.frequencyOrder = FrequencyOrder({ items[k].frequency : k \in 1..Len(items) }, ascending),
            !.definitions = [d \in 1..Len(@) |->
                [@[d] EXCEPT !.frequencyOrder =
                    FrequencyOrder({ frequencyMap[h] : h \in Range(entry.definitions[d].headwordIndices)
                                                               \cap indices }, ascending)]]])))

UpdateSortFrequencies(entries, dictionary, ascending) ==
    [e \in 1..Len(entries) |-> UpdateSortFrequency(entries[e], dictionary, ascending)]

\* The loop over the headwords in compareFunction of _sortTermDictionaryEntries.
RECURSIVE CompareHeadwordTerms(_, _, _)
CompareHeadwordTerms(headwords1, headwords2, j) ==
    IF j > Min(Len(headwords1), Len(headwords2)) THEN 0
    ELSE LET term1 == headwords1[j].term
             term2 == headwords2[j].term
         IN  IF Len(term2) - Len(term1) # 0 THEN Len(term2) - Len(term1)
             ELSE Let(StringCompare(term1, term2), LAMBDA i :
                      IF i # 0 THEN i ELSE CompareHeadwordTerms(headwords1, headwords2, j + 1))

\* compareFunction of _sortTermDictionaryEntries
CompareTermDictionaryEntries(v1, v2) ==
    IF v2.maxTransformedTextLength - v1.maxTransformedTextLength # 0
    THEN v2.maxTransformedTextLength - v1.maxTransformedTextLength
    ELSE IF Len(v1.inflectionHypotheses) - Len(v2.inflectionHypotheses) # 0
    THEN Len(v1.inflectionHypotheses) - Len(v2.inflectionHypotheses)
    ELSE IF v2.sourceTermExactMatchCount - v1.sourceTermExactMatchCount # 0
    THEN v2.sourceTermExactMatchCount - v1.sourceTermExactMatchCount
    ELSE IF v1.frequencyOrder - v2.frequencyOrder # 0
    THEN v1.frequencyOrder - v2.frequencyOrder
    ELSE IF v2.dictionaryPriority - v1.dictionaryPriority # 0
    THEN v2.dictionaryPriority - v1.dictionaryPriority
    ELSE IF v2.score - v1.score # 0
    THEN v2.score - v1.score
    ELSE Let(CompareHeadwordTerms(v1.headwords, v2.headwords, 1), LAMBDA i :
         IF i # 0 THEN i
         ELSE IF Len(v2.definitions) - Len(v1.definitions) # 0
         THEN Len(v2.definitions) - Len(v1.definitions)
         ELSE v1.dictionaryIndex - v2.dictionaryIndex)

TermDictionaryEntryBefore(v1, v2) == CompareTermDictionaryEntries(v1, v2) < 0

SortTermDictionaryEntries(entries) ==
    StableSort(entries, [i \in 1..Len(entries), j \in 1..Len(entries) |-> TermDictionaryEntryBefore(entries[i], entries[j])])

RECURSIVE CompareHeadwordIndices(_, _, _)
CompareHeadwordIndices(headwordIndices1, headwordIndices2, j) ==
    IF j > Len(headwordIndices1) THEN 0
    ELSE IF headwordIndices1[j] - headwordIndices2[j] # 0
         THEN headwordIndices1[j] - headwordIndices2[j]
         ELSE CompareHeadwordIndices(headwordIndices1, headwordIndices2, j + 1)

RECURSIVE ScoreFromTags(_)
ScoreFromTags(tags) == IF tags = <<>> THEN 0 ELSE Head(tags).score + ScoreFromTags(Tail(tags))

\* compareFunction of _sortTermDictionaryEntryDefinitions
CompareDefinitions(v1, v2) ==
    IF v1.frequencyOrder - v2.frequencyOrder # 0
    THEN v1.frequencyOrder - v2.frequencyOrder
    ELSE IF v2.dictionaryPriority - v1.dictionaryPriority # 0
    THEN v2.dictionaryPriority - v1.dictionaryPriority
    ELSE IF v2.score - v1.score # 0
    THEN v2.score - v1.score
    ELSE IF Len(v2.headwordIndices) - Len(v1.headwordIndices) # 0
    THEN Len(v2.headwordIndices) - Len(v1.headwordIndices)
    ELSE Let(CompareHeadwordIndices(v1.headwordIndices, v2.headwordIndices, 1), LAMBDA i :
         IF i # 0 THEN i
         ELSE IF v1.dictionaryIndex - v2.dictionaryIndex # 0
         THEN v1.dictionaryIndex - v2.dictionaryIndex
         ELSE Let(ScoreFromTags(v2.tags) - ScoreFromTags(v1.tags), LAMBDA i2 :
                  IF i2 # 0 THEN i2 ELSE v1.index - v2.index))

DefinitionBefore(v1, v2) == CompareDefinitions(v1, v2) < 0

SortTermDictionaryEntryDefinitions(definitions) ==
    StableSort(definitions, [i \in 1..Len(definitions), j \in 1..Len(definitions) |-> DefinitionBefore(definitions[i], definitions[j])])

\* compare of _sortTermDictionaryEntrySimpleData
CompareSimpleData(v1, v2) ==
    IF v2.dictionaryPriority - v1.dictionaryPriority # 0
    THEN v2.dictionaryPriority - v1.dictionaryPriority
    ELSE IF v1.headwordIndex - v2.headwordIndex # 0
    THEN v1.headwordIndex - v2.headwordIndex
    ELSE IF v1.dictionaryIndex - v2.dictionaryIndex # 0
    THEN v1.dictionaryIndex - v2.dictionaryIndex
    ELSE v1.index - v2.index

SimpleDataBefore(v1, v2) == CompareSimpleData(v1, v2) < 0

SortTermDictionaryEntrySimpleData(dataList) ==
    StableSort(dataList, [i \in 1..Len(dataList), j \in 1..Len(dataList) |-> SimpleDataBefore(dataList[i], dataList[j])])

\* _getTagNamesWithCategory: the names, sorted; the sorted array serves only
\* as a key, for which the collation order does as well as the code units.
StringBefore(str1, str2) == StringCompare(str1, str2) < 0

GetTagNamesWithCategory(tags, category) ==
    Let(SelectSeq(tags, LAMBDA tag : tag.category = category), LAMBDA withCategory :
    Let([k \in 1..Len(withCategory) |-> withCategory[k].name], LAMBDA results :
        StableSort(results, [i \in 1..Len(results), j \in 1..Len(results) |->
                                StringBefore(results[i], results[j])])))

\* _flagRedundantDefinitionTags; lastPartOfSpeech is Null for '' and
\* Some(key) for a key.
RECURSIVE FlagRedundantFrom(_, _, _, _)
FlagRedundantFrom(definitions, k, lastDictionary, lastPartOfSpeech) ==
    IF k > Len(definitions) THEN definitions
    ELSE LET dictionary == definitions[k].dictionary
             tags == definitions[k].tags
             last == IF lastDictionary # Some(dictionary) THEN Null ELSE lastPartOfSpeech
         IN  Let(Some(CreateMapKey(GetTagNamesWithCategory(tags, "partOfSpeech"))), LAMBDA partOfSpeech :
             Let(last = partOfSpeech, LAMBDA redundant :
                 FlagRedundantFrom(
                     IF redundant
                     THEN [definitions EXCEPT ![k].tags = [t \in 1..Len(tags) |->
                              IF tags[t].category = "partOfSpeech"
                              THEN [tags[t] EXCEPT !.redundant = TRUE] ELSE tags[t]]]
                     ELSE definitions,
                     k + 1, Some(dictionary), IF redundant THEN last ELSE partOfSpeech)))

FlagRedundantDefinitionTags(definitions) == FlagRedundantFrom(definitions, 1, Null, Null)

\* The final loop of findTerms over the entries.
FinishEntry(entry) ==
    Let(FlagRedundantDefinitionTags(entry.definitions), LAMBDA flagged :
        [entry EXCEPT
            !.definitions = IF Len(flagged) > 1 THEN SortTermDictionaryEntryDefinitions(flagged) ELSE flagged,
            !.frequencies = IF Len(@) > 1 THEN SortTermDictionaryEntrySimpleData(@) ELSE @,
            !.pronunciations = IF Len(@) > 1 THEN SortTermDictionaryEntrySimpleData(@) ELSE @])

(***************************************************************************)
(* findTerms as a process.  The call runs from one await of a database     *)
(* query to the next; a call state c is the record of the call's           *)
(* variables, and every operator below maps a call state to the call state *)
(* at the next await, at the return or at the rejection.                   *)
(***************************************************************************)
NoQuery == [kind |-> "none", purpose |-> "none", args |-> <<>>]
NoResult == [returned |-> FALSE, dictionaryEntries |-> <<>>, originalTextLength |-> 0]
NoError == "none"
NoTermFrequencies == [returned |-> FALSE, frequencies |-> <<>>]
NoEntryGroup == [dictionaryEntries |-> <<>>, checkDuplicateDefinitions |-> FALSE]
DbErrors == {"AbortError", "DataError"}

Call ==
    [pc |-> pc, pending |-> pending, queryLog |-> queryLog, deinflections |-> deinflections,
     heap |-> heap, dictionaryEntries |-> dictionaryEntries,
     originalTextLength |-> originalTextLength, locals |-> locals, tagCache |-> tagCache,
     result |-> result, error |-> error]

Install(c) ==
    /\ pc' = c.pc
    /\ pending' = c.pending
    /\ queryLog' = c.queryLog
    /\ deinflections' = c.deinflections
    /\ heap' = c.heap
    /\ dictionaryEntries' = c.dictionaryEntries
    /\ originalTextLength' = c.originalTextLength
    /\ locals' = c.locals
    /\ tagCache' = c.tagCache
    /\ result' = c.result
    /\ error' = c.error

\* `await this._database.<kind>(args)`: the query is sent and the call waits.
Issue(c, kind, purpose, args, at) ==
    [c EXCEPT !.pc = at,
              !.pending = [kind |-> kind, purpose |-> purpose, args |-> args],
              !.queryLog = Append(@, [kind |-> kind, purpose |-> purpose, args |-> args,
                                      outcome |-> "pending", error |-> NoError])]

\* The query in flight is answered.
Fulfilled(c) ==
    [c EXCEPT !.pending = NoQuery, !.queryLog[Len(c.queryLog)].outcome = "fulfilled"]

\* `return {dictionaryEntries, originalTextLength}` of findTerms.
Return(c) ==
    [c EXCEPT !.pc = "done", !.locals = <<>>,
              !.result = [returned |-> TRUE, dictionaryEntries |-> c.dictionaryEntries,
                          originalTextLength |-> c.originalTextLength]]

\* Lines 108-121 of findTerms: the sort frequencies, the sorts, the flags.
FinishFindTerms(c, opts) ==
    Let(IF opts.sortFrequencyDictionary # Null
        THEN UpdateSortFrequencies(c.dictionaryEntries, opts.sortFrequencyDictionary[1],
                                   opts.sortFrequencyDictionaryOrder = "ascending")
        ELSE c.dictionaryEntries, LAMBDA withOrder :
    Let(IF Len(withOrder) > 1 THEN SortTermDictionaryEntries(withOrder) ELSE withOrder, LAMBDA sorted :
        Return([c EXCEPT !.dictionaryEntries = [e \in 1..Len(sorted) |-> FinishEntry(sorted[e])]])))

\* _expandTermTags after the reply (databaseTags), or without a query.
ExpandTermTagsEnd(c, opts, tagTargets, allItems, cacheBefore, nonCachedItems, databaseTags) ==
    LET NewTags(target) ==
            GroupTags(ExpandedTags(target, allItems, cacheBefore, nonCachedItems, databaseTags))
    IN  FinishFindTerms(
            [c EXCEPT !.tagCache = CacheReplies(@, nonCachedItems, databaseTags, 1),
                      !.dictionaryEntries = WithTags(@, tagTargets,
                          [t \in 1..Len(tagTargets) |-> NewTags(tagTargets[t])])],
            opts)

\* _expandTermTags up to the await of _expandTagGroups.
ExpandTermTags(c, opts) ==
    Let(GetTermTagTargets(c.dictionaryEntries), LAMBDA tagTargets :
    Let(AllTagItems(tagTargets), LAMBDA allItems :
    Let(CacheWithDictionaries(c.tagCache,
            UniqueInOrder([k \in 1..Len(allItems) |-> allItems[k].dictionary], {})), LAMBDA cache :
    Let(NonCachedItems(allItems, cache), LAMBDA nonCachedItems :
    Let([c EXCEPT !.tagCache = cache,
                  !.dictionaryEntries = WithTags(@, tagTargets, NoTags(tagTargets))], LAMBDA c1 :
        IF Len(nonCachedItems) > 0
        THEN Issue([c1 EXCEPT !.locals = [tagTargets |-> tagTargets, allItems |-> allItems,
                                          cacheBefore |-> cache, nonCachedItems |-> nonCachedItems]],
                   "findTagMetaBulk", "tag", nonCachedItems, "tagMeta")
        ELSE ExpandTermTagsEnd(c1, opts, tagTargets, allItems, cache, <<>>, <<>>))))))

\* (mutant) the tag lookup is sent first, and not awaited
AddTermMetaAfterTags(c, dictionaryMap) ==
    Let(TermMetaTargets(c.dictionaryEntries), LAMBDA t :
        Issue(Issue([c EXCEPT !.locals = [headwordReadingMaps |-> t.headwordReadingMaps,
                                          dictionaryMap |-> dictionaryMap]],
                    "findTagMetaBulk", "tag", <<>>, "tagMeta"),
              "findTermMetaBulk", "termMeta", [termList |-> t.headwordMapKeys, dictionaryMap |-> dictionaryMap],
              "termMeta"))

\* _addTermMeta up to its await.
AddTermMeta(c, dictionaryMap) ==
    Let(TermMetaTargets(c.dictionaryEntries), LAMBDA t :
        Issue([c EXCEPT !.locals = [headwordReadingMaps |-> t.headwordReadingMaps,
                                    dictionaryMap |-> dictionaryMap]],
              "findTermMetaBulk", "termMeta", [termList |-> t.headwordMapKeys, dictionaryMap |-> dictionaryMap],
              "termMeta"))

\* _addTermMeta after the reply, and what follows it in findTerms.
AfterTermMeta(c, m, opts, metas) ==
    Let([c EXCEPT !.dictionaryEntries =
            ApplyTermMetas(@, metas, c.locals.headwordReadingMaps, c.locals.dictionaryMap)], LAMBDA c1 :
        IF m = "simple"
        THEN FinishFindTerms([c1 EXCEPT !.dictionaryEntries = ClearTermTags(@)], opts)
        ELSE ExpandTermTags(c1, opts))

\* Lines 91-106 of findTerms: the exclusion, then the metadata and the tags.
AfterMode(c, m, opts) ==
    Let(IF opts.excludeDictionaryDefinitions # Null
        THEN [c EXCEPT !.dictionaryEntries =
                 RemoveExcludedDefinitions(@, opts.excludeDictionaryDefinitions[1])]
        ELSE c, LAMBDA c1 :
        IF m = "simple"
        THEN IF opts.sortFrequencyDictionary # Null
             THEN AddTermMeta(c1, SelectSeq(opts.enabledDictionaryMap,
                                  LAMBDA d : d.dictionary = opts.sortFrequencyDictionary[1]))
             ELSE FinishFindTerms([c1 EXCEPT !.dictionaryEntries = ClearTermTags(@)], opts)
        ELSE AddTermMeta(c1, opts.enabledDictionaryMap))

\* The end of _getRelatedDictionaryEntries and the return to findTerms.
AfterRelated(c, m, opts, grouped, ungrouped) ==
    AfterMode([c EXCEPT !.dictionaryEntries = RelatedDictionaryEntries(grouped, ungrouped, c.heap),
                        !.locals = <<>>],
              m, opts)

\* _getRelatedDictionaryEntries after the reply of findTermsBySequenceBulk,
\* up to the await of _addSecondaryRelatedDictionaryEntries.
AfterSequenceTerms(c, m, opts, databaseEntries) ==
    Let(AddRelatedDictionaryEntries(databaseEntries, opts.enabledDictionaryMap,
            [grouped |-> c.locals.grouped, ungrouped |-> c.locals.ungrouped]), LAMBDA added :
    Let([g \in 1..Len(added.grouped) |->
            [added.grouped[g] EXCEPT !.dictionaryEntries = SortTermDictionaryEntriesById(@)]],
        LAMBDA sortedGroups :
    Let(GetSecondarySearchDictionaryMap(opts.enabledDictionaryMap), LAMBDA secondarySearchDictionaryMap :
        IF Len(added.ungrouped) # 0 \/ Len(secondarySearchDictionaryMap) # 0
        THEN Let(SecondaryPrepare(sortedGroups, added.ungrouped), LAMBDA prep :
                 IF Len(prep.termList) = 0 \/ Len(secondarySearchDictionaryMap) = 0
                 THEN AfterRelated(c, m, opts, prep.grouped, prep.ungrouped)
                 ELSE Issue([c EXCEPT !.locals = [grouped |-> prep.grouped, ungrouped |-> prep.ungrouped,
                                                  termList |-> prep.termList,
                                                  targetList |-> prep.targetList]],
                            "findTermsExactBulk", "secondary",
                            [termList |-> prep.termList, dictionaryMap |-> secondarySearchDictionaryMap],
                            "secondaryTerms"))
        ELSE AfterRelated(c, m, opts, sortedGroups, added.ungrouped))))

\* _addSecondaryRelatedDictionaryEntries after the reply of findTermsExactBulk.
AfterSecondaryTerms(c, m, opts, databaseEntries) ==
    Let(AddSecondaryDatabaseEntries(SortDatabaseEntriesByIndex(databaseEntries),
            c.locals.termList, c.locals.targetList, opts.enabledDictionaryMap,
            [grouped |-> c.locals.grouped, ungrouped |-> c.locals.ungrouped]), LAMBDA r :
        AfterRelated(c, m, opts, r.grouped, r.ungrouped))

\* _getRelatedDictionaryEntries up to its first await.
GetRelatedDictionaryEntries(c, m, opts) ==
    Let(RelatedGroupsLoop(c.dictionaryEntries, 1, opts.mainDictionary,
                          [sequenceList |-> <<>>, grouped |-> <<>>, ungrouped |-> <<>>]), LAMBDA r :
        IF Len(r.sequenceList) > 0
        THEN Issue([c EXCEPT !.locals = [grouped |-> r.grouped, ungrouped |-> r.ungrouped]],
                   "findTermsBySequenceBulk", "sequence", r.sequenceList, "sequenceTerms")
        ELSE AfterRelated(c, m, opts, r.grouped, r.ungrouped))

\* The switch on the mode of findTerms (lines 82-89).
AfterFindTermsInternal(c, m, opts) ==
    IF m = "group"
    THEN AfterMode([c EXCEPT !.dictionaryEntries = GroupDictionaryEntriesByHeadword(@, c.heap)], m, opts)
    ELSE IF m = "merge"
    THEN GetRelatedDictionaryEntries(c, m, opts)
    ELSE AfterMode(c, m, opts)

\* _findTermsInternal once _getDeinflections has returned ds.
AfterDeinflections(c, m, opts, ds) ==
    Let(FindTermsInternalLoop(
            [dictionaryEntries |-> <<>>, ids |-> {}, heap |-> c.heap, originalTextLength |-> 0],
            ds, 1, opts.enabledDictionaryMap), LAMBDA r :
        AfterFindTermsInternal(
            [c EXCEPT !.deinflections = ds, !.heap = r.heap, !.locals = <<>>,
                      !.dictionaryEntries = r.dictionaryEntries,
                      !.originalTextLength = r.originalTextLength],
            m, opts))

\* _getDeinflections after the reply of the first findTermsBulk.
AfterPrimaryTerms(c, m, opts, databaseEntries) ==
    Let(SelectSeq(MatchEntriesToDeinflections(databaseEntries, c.deinflections,
                                              opts.deinflectionPosFilter),
                  LAMBDA d : Len(d.databaseEntries) > 0), LAMBDA ds :
        IF opts.deinflectionSource # "algorithm"
        THEN Let(GetDictionaryDeinflections(ds, c.heap), LAMBDA dd :
                 Issue([c EXCEPT !.deinflections = ds, !.heap = dd.heap,
                                 !.locals = [dictionaryDeinflections |-> dd.deinflections]],
                       "findTermsBulk", "dictionaryDeinflection",
                       [termList |-> UniqueDeinflectionTerms(dd.deinflections),
                        dictionaryMap |-> opts.enabledDictionaryMap],
                       "dictionaryDeinflectionTerms"))
        ELSE AfterDeinflections(c, m, opts, ds))

\* _getDictionaryDeinflections after the reply of the second findTermsBulk.
AfterDictionaryDeinflectionTerms(c, m, opts, databaseEntries) ==
    AfterDeinflections(c, m, opts,
        c.deinflections \o MatchEntriesToDeinflections(databaseEntries,
                               c.locals.dictionaryDeinflections, FALSE))

\* japaneseUtil.isCodePointJapanese (outside the source): no character of the
\* model's alphabet is Japanese.
IsCodePointJapanese(ch) == FALSE

\* _getJapaneseOnlyText: the text up to its first non-Japanese character.
GetJapaneseOnlyText(str) ==
    Let({ k \in 1..Len(str) : ~IsCodePointJapanese(str[k]) }, LAMBDA stops :
        IF stops = {} THEN str
        ELSE SubSeq(str, 1, (CHOOSE k \in stops : \A k2 \in stops : k <= k2) - 1))

\* findTerms from the call to the first await.
BeginFindTerms(c, m, rawText, opts) ==
    Let(IF opts.removeNonJapaneseCharacters THEN GetJapaneseOnlyText(rawText) ELSE rawText, LAMBDA text1 :
        IF Len(text1) = 0
        THEN AfterFindTermsInternal(c, m, opts)
        ELSE Let(IF opts.deinflect
                 THEN GetAlgorithmDeinflections(text1, opts)
                 ELSE [deinflections |-> <<CreateDeinflection(text1, text1, text1, {}, <<>>, <<>>)>>,
                       heap |-> <<>>, used |-> {}], LAMBDA alg :
                 IF Len(alg.deinflections) = 0
                 THEN AfterDeinflections(c, m, opts, <<>>)
                 ELSE Issue([c EXCEPT !.deinflections = alg.deinflections, !.heap = alg.heap],
                            "findTermsBulk", "primary",
                            [termList |-> UniqueDeinflectionTerms(alg.deinflections),
                             dictionaryMap |-> opts.enabledDictionaryMap],
                            "primaryTerms")))

(***************************************************************************)
(* The arguments of a call.                                                *)
(***************************************************************************)
\* The texts: the strings over a and s up to MaxTextLength, and those that
\* start with a once more with a capital first letter.
LowerTexts == UNION { [1..n -> {"a", "s"}] : n \in 0..MaxTextLength }
Texts == LowerTexts \cup { CapitalizeFirstLetter(t) : t \in { u \in LowerTexts : Len(u) > 0 /\ u[1] = "a" } }

BaseOptions ==
    [enabledDictionaryMap |-> EnabledDictionaryMap,
     excludeDictionaryDefinitions |-> Null,
     sortFrequencyDictionary |-> Null,
     sortFrequencyDictionaryOrder |-> "descending",
     mainDictionary |-> Some("M"),
     deinflect |-> TRUE,
     deinflectionSource |-> "both",
     deinflectionPosFilter |-> TRUE,
     matchType |-> "exact",
     removeNonJapaneseCharacters |-> FALSE,
     searchResolution |-> "letter",
     textReplacements |-> <<0>>,
     collapseEmphaticSequences |-> "false",
     textTransformations |-> <<[id |-> "decapitalize", setting |-> "variant"]>>]

\* The options that differ from BaseOptions in one respect.
OptionVariants ==
    { BaseOptions,
      [BaseOptions EXCEPT !.excludeDictionaryDefinitions = Some({"M"})],
      [BaseOptions EXCEPT !.excludeDictionaryDefinitions = Some({"E"})],
      [BaseOptions EXCEPT !.sortFrequencyDictionary = Some("F")],
      [BaseOptions EXCEPT !.sortFrequencyDictionary = Some("F"),
                          !.sortFrequencyDictionaryOrder = "ascending"],
      [BaseOptions EXCEPT !.deinflectionSource = "algorithm"],
      [BaseOptions EXCEPT !.deinflectionSource = "dictionary"],
      [BaseOptions EXCEPT !.deinflect = FALSE],
      [BaseOptions EXCEPT !.searchResolution = "word"] }

Modes == {"split", "group", "merge", "simple"}

\* Every mode with the main dictionary set; merge also without it.
CallOptions(m) ==
    OptionVariants \cup
    (IF m = "merge" THEN { [o EXCEPT !.mainDictionary = Null] : o \in OptionVariants } ELSE {})

(***************************************************************************)
(* The actions of a findTerms call.                                        *)
(***************************************************************************)
Init ==
    /\ variantVectorSpace = <<>>
    /\ variantIndex = 0
    /\ variants = <<>>
    /\ db \in Databases
    /\ mode \in Modes
    /\ text \in Texts
    /\ options \in CallOptions(mode)
    /\ pc = "idle"
    /\ pending = NoQuery
    /\ queryLog = <<>>
    /\ deinflections = <<>>
    /\ heap = <<>>
    /\ dictionaryEntries = <<>>
    /\ originalTextLength = 0
    /\ locals = <<>>
    /\ tagCache = <<>>
    /\ result = NoResult
    /\ error = NoError
    /\ termReadingList = <<>>
    /\ frequencyDictionaries = <<>>
    /\ termFrequencies = NoTermFrequencies
    /\ entryGroup = NoEntryGroup
    /\ groupedEntry = Null
    /\ scanText = Null
    /\ scanLength = 0
    /\ scanUsed = {}
    /\ scanLog = <<>>
    /\ TagsIdle

\* findTerms(mode, text, options) is called and runs to its first await.
FindTerms ==
    /\ pc = "idle"
    /\ Install(BeginFindTerms(Call, mode, text, options))
    /\ UNCHANGED <<genVars, freqVars, foldVars, scanVars, tagVars, db, mode, text, options>>

OnPrimaryTerms ==
    /\ pc = "primaryTerms"
    /\ Install(AfterPrimaryTerms(Fulfilled(Call), mode, options,
                   FindTermsBulk(pending.args.termList, pending.args.dictionaryMap, db)))
    /\ UNCHANGED <<genVars, freqVars, foldVars, scanVars, tagVars, db, mode, text, options>>

OnDictionaryDeinflectionTerms ==
    /\ pc = "dictionaryDeinflectionTerms"
    /\ Install(AfterDictionaryDeinflectionTerms(Fulfilled(Call), mode, options,
                   FindTermsBulk(pending.args.termList, pending.args.dictionaryMap, db)))
    /\ UNCHANGED <<genVars, freqVars, foldVars, scanVars, tagVars, db, mode, text, options>>

OnSequenceTerms ==
    /\ pc = "sequenceTerms"
    /\ Install(AfterSequenceTerms(Fulfilled(Call), mode, options,
                   FindTermsBySequenceBulk(pending.args, db)))
    /\ UNCHANGED <<genVars, freqVars, foldVars, scanVars, tagVars, db, mode, text, options>>

OnSecondaryTerms ==
    /\ pc = "secondaryTerms"
    /\ Install(AfterSecondaryTerms(Fulfilled(Call), mode, options,
                   FindTermsExactBulk(pending.args.termList, pending.args.dictionaryMap, db)))
    /\ UNCHANGED <<genVars, freqVars, foldVars, scanVars, tagVars, db, mode, text, options>>

OnTermMeta ==
    /\ pc = "termMeta"
    /\ Install(AfterTermMeta(Fulfilled(Call), mode, options,
                   FindTermMetaBulk(pending.args.termList, pending.args.dictionaryMap)))
    /\ UNCHANGED <<genVars, freqVars, foldVars, scanVars, tagVars, db, mode, text, options>>

OnTagMeta ==
    /\ pc = "tagMeta"
    /\ Install(ExpandTermTagsEnd(Fulfilled(Call), options, locals.tagTargets, locals.allItems,
                   locals.cacheBefore, locals.nonCachedItems, FindTagMetaBulk(pending.args)))
    /\ UNCHANGED <<genVars, freqVars, foldVars, scanVars, tagVars, db, mode, text, options>>

\* (mutant) the rejection is swallowed: the call returns what it has
RejectedReturnsPartial(c, err) ==
    Return([c EXCEPT !.pending = NoQuery,
                     !.queryLog[Len(c.queryLog)].outcome = "rejected",
                     !.queryLog[Len(c.queryLog)].error = err])

\* The awaited query rejects with err: no function on the await chain has a
\* try/catch, so findTerms rejects with err.
Rejected(c, err) ==
    [c EXCEPT !.pc = "failed", !.pending = NoQuery, !.error = err,
              !.queryLog[Len(c.queryLog)].outcome = "rejected",
              !.queryLog[Len(c.queryLog)].error = err]

\* The database fails the query in flight.
QueryRejected ==
    /\ pending.kind # "none"
    /\ \E err \in DbErrors : Install(Rejected(Call, err))
    /\ UNCHANGED <<genVars, freqVars, foldVars, scanVars, tagVars, db, mode, text, options>>

Next ==
    \/ FindTerms
    \/ OnPrimaryTerms
    \/ OnDictionaryDeinflectionTerms
    \/ OnSequenceTerms
    \/ OnSecondaryTerms
    \/ OnTermMeta
    \/ OnTagMeta
    \/ QueryRejected

Spec == Init /\ [][Next]_vars

(***************************************************************************)
(* Properties of a findTerms call.                                         *)
(***************************************************************************)
Returned == result.returned
ReturnedEntries == result.dictionaryEntries
ExcludedDictionaries ==
    IF options.excludeDictionaryDefinitions = Null THEN {} ELSE options.excludeDictionaryDefinitions[1]

\* C1: in every returned entry, every value of every definition's
\* headwordIndices is an index of a headword of that entry: at least 0 and
\* below the number of headwords.
HeadwordIndicesInRange ==
    Returned =>
        \A e \in 1..Len(ReturnedEntries) :
            \A d \in 1..Len(ReturnedEntries[e].definitions) :
                \A k \in 1..Len(ReturnedEntries[e].definitions[d].headwordIndices) :
                    /\ ReturnedEntries[e].definitions[d].headwordIndices[k] >= 0
                    /\ ReturnedEntries[e].definitions[d].headwordIndices[k]
                           < Len(ReturnedEntries[e].headwords)

\* A returned entry that lost its first headword to the exclusion and whose
\* definitions were remapped to the headword that stayed.
HeadwordIndicesRemapped ==
    /\ Returned
    /\ ExcludedDictionaries # {}
    /\ \E e \in 1..Len(ReturnedEntries) :
          /\ Len(ReturnedEntries[e].headwords) = 1
          /\ ReturnedEntries[e].headwords[1].term = <<"a", "s">>
          /\ ReturnedEntries[e].headwords[1].index = 1
          /\ \E d \in 1..Len(ReturnedEntries[e].definitions) :
                ReturnedEntries[e].definitions[d].headwordIndices = <<0>>

\* C2: in every returned entry, the index field of each headword is the
\* headword's position in the entry's headword list (counted from 0).
HeadwordIndexIsPosition ==
    Returned =>
        \A e \in 1..Len(ReturnedEntries) :
            \A i \in 1..Len(ReturnedEntries[e].headwords) :
                ReturnedEntries[e].headwords[i].index = i - 1

\* C3: with dictionaries excluded, no returned entry holds a definition, a
\* pronunciation, a frequency or a tag of an excluded dictionary (an entry
\* whose definitions all came from one is therefore absent).
NoExcludedDictionaryData ==
    Returned =>
        \A e \in 1..Len(ReturnedEntries) :
            LET entry == ReturnedEntries[e]
                TagsClean(tags) ==
                    \A t \in 1..Len(tags) : Range(tags[t].dictionaries) \cap ExcludedDictionaries = {}
            IN  /\ Len(entry.definitions) > 0
                /\ \A d \in 1..Len(entry.definitions) :
                      /\ entry.definitions[d].dictionary \notin ExcludedDictionaries
                      /\ TagsClean(entry.definitions[d].tags)
                /\ \A h \in 1..Len(entry.headwords) : TagsClean(entry.headwords[h].tags)
                /\ \A f \in 1..Len(entry.frequencies) :
                      entry.frequencies[f].dictionary \notin ExcludedDictionaries
                /\ \A q \in 1..Len(entry.pronunciations) :
                      entry.pronunciations[q].dictionary \notin ExcludedDictionaries

\* The candidates of the call that got a database hit and are not dictionary
\* deinflections.
AlgorithmHits ==
    { k \in 1..Len(deinflections) :
        Len(deinflections[k].databaseEntries) > 0 /\ ~deinflections[k].isDictionaryDeinflection }

\* C4: the returned originalTextLength is the greatest length of the original
\* text of a candidate that got a database hit and is not a dictionary
\* deinflection, and 0 when there is no such candidate.
OriginalTextLengthIsMaximum ==
    Returned =>
        /\ \A k \in AlgorithmHits : Len(deinflections[k].originalText) <= result.originalTextLength
        /\ IF AlgorithmHits = {} THEN result.originalTextLength = 0
           ELSE \E k \in AlgorithmHits : Len(deinflections[k].originalText) = result.originalTextLength

\* A call whose hits have original texts of two lengths, the shorter one
\* last, next to a dictionary deinflection with hits.
OriginalTextLengthWitness ==
    /\ Returned
    /\ result.originalTextLength = 2
    /\ \E k \in AlgorithmHits : Len(deinflections[k].originalText) = 1
    /\ \E k \in 1..Len(deinflections) :
          deinflections[k].isDictionaryDeinflection /\ Len(deinflections[k].databaseEntries) > 0

\* The ids of the definitions of the returned entries, one per definition.
ReturnedDefinitionIds ==
    Flatten([e \in 1..Len(ReturnedEntries) |->
                [d \in 1..Len(ReturnedEntries[e].definitions) |-> ReturnedEntries[e].definitions[d].id]])

\* C5: in split, simple and group mode no database entry id occurs in more
\* than one definition of the returned entries.
DefinitionIdsUnique ==
    (Returned /\ mode \in {"split", "simple", "group"}) =>
        \A i, j \in 1..Len(ReturnedDefinitionIds) :
            ReturnedDefinitionIds[i] = ReturnedDefinitionIds[j] => i = j

\* A returned id that two candidates hit.
DefinitionIdHitTwice ==
    /\ Returned
    /\ mode \in {"split", "simple", "group"}
    /\ \E k1, k2 \in 1..Len(deinflections) :
          /\ k1 < k2
          /\ \E x \in 1..Len(deinflections[k1].databaseEntries),
                y \in 1..Len(deinflections[k2].databaseEntries) :
                /\ deinflections[k1].databaseEntries[x].id = deinflections[k2].databaseEntries[y].id
                /\ Includes(ReturnedDefinitionIds, deinflections[k1].databaseEntries[x].id)

\* The place of a query in the order of a call.
QueryRank(purpose) ==
    CASE purpose = "primary" -> 1
      [] purpose = "dictionaryDeinflection" -> 2
      [] purpose = "sequence" -> 3
      [] purpose = "secondary" -> 4
      [] purpose = "termMeta" -> 5
      [] purpose = "tag" -> 6

\* C6: the queries of a call are issued in the order primary term lookup,
\* dictionary-deinflection term lookup, sequence lookup, secondary lookup,
\* term-meta lookup, tag lookup, and a query is issued only after every
\* earlier query of the call was answered.
QueriesInFixedOrder ==
    \A i, j \in 1..Len(queryLog) :
        i < j => /\ QueryRank(queryLog[i].purpose) <= QueryRank(queryLog[j].purpose)
                 /\ queryLog[i].outcome # "pending"

\* A call that returned after issuing all six queries.
AllSixQueriesIssued ==
    /\ Returned
    /\ Len(queryLog) = 6
    /\ \A r \in 1..6 : \E i \in 1..Len(queryLog) : QueryRank(queryLog[i].purpose) = r

\* The (dictionary, query) keys sent to findTagMetaBulk by the call, one per
\* item sent.
TagKeysSent ==
    Flatten([i \in 1..Len(queryLog) |->
                IF queryLog[i].kind = "findTagMetaBulk"
                THEN [k \in 1..Len(queryLog[i].args) |->
                         <<queryLog[i].args[k].dictionary, queryLog[i].args[k].query>>]
                ELSE <<>>])

\* C7: during one call every (dictionary, tag query) key is sent to the tag
\* lookup at most once.
TagKeySentAtMostOnce ==
    \A i, j \in 1..Len(TagKeysSent) : TagKeysSent[i] = TagKeysSent[j] => i = j

\* C8: when a database query of the call fails, findTerms fails with the
\* error of that query, returns nothing, and the failed query is the last
\* query of the call.
QueryFailureAbortsCall ==
    /\ \A i \in 1..Len(queryLog) :
          queryLog[i].outcome = "rejected" =>
              /\ i = Len(queryLog)
              /\ pc = "failed"
              /\ error = queryLog[i].error
              /\ ~Returned
              /\ pending.kind = "none"
    /\ pc = "failed" => /\ Len(queryLog) > 0
                        /\ queryLog[Len(queryLog)].outcome = "rejected"

\* A call that failed at its third query or later, with entries already built.
FailedMidway ==
    /\ pc = "failed"
    /\ Len(queryLog) >= 3
    /\ Len(dictionaryEntries) > 0
    /\ error = "DataError"

MergeWithoutMainDictionary == mode = "merge" /\ options.mainDictionary = Null

ReplacementVariantLists == { [i \in 1..n |-> i - 1] : n \in 1..MaxReplacementVariants }
SettingValues == {"false", "true", "variant"}

GenInit ==
    /\ \E tr \in ReplacementVariantLists, ce \in {"false", "true", "full"},
          s1 \in SettingValues, s2 \in SettingValues :
          variantVectorSpace = VariantVectorSpace(tr, ce,
              << [id |-> TextTransformationIds[1], setting |-> s1],
                 [id |-> TextTransformationIds[2], setting |-> s2] >>)
    /\ variantIndex = 0
    /\ variants = <<>>
    /\ db = {} /\ mode = "split" /\ text = <<>> /\ options = BaseOptions
    /\ pc = "idle" /\ pending = NoQuery /\ queryLog = <<>> /\ deinflections = <<>>
    /\ heap = <<>> /\ dictionaryEntries = <<>> /\ originalTextLength = 0 /\ locals = <<>>
    /\ tagCache = <<>> /\ result = NoResult /\ error = NoError
    /\ termReadingList = <<>> /\ frequencyDictionaries = <<>> /\ termFrequencies = NoTermFrequencies
    /\ entryGroup = NoEntryGroup /\ groupedEntry = Null
    /\ scanText = Null /\ scanLength = 0 /\ scanUsed = {} /\ scanLog = <<>>
    /\ TagsIdle

\* One iteration of the generator's loop: the variant of the index is yielded.
GenYield ==
    /\ variantIndex < TotalVariants(variantVectorSpace)
    /\ variants' = Append(variants, GenerateArrayVariant(variantVectorSpace, variantIndex))
    /\ variantIndex' = variantIndex + 1
    /\ UNCHANGED variantVectorSpace
    /\ UNCHANGED callVars
    /\ UNCHANGED freqVars
    /\ UNCHANGED foldVars
    /\ UNCHANGED scanVars
    /\ UNCHANGED tagVars

GenNext == GenYield

SpecGen == GenInit /\ [][GenNext]_vars

(***************************************************************************)
(* The generator's output as a counter: the first variant takes the first  *)
(* option of every axis, every later variant is the successor (increment   *)
(* the first axis, carry to the next) of the one before it, and after the  *)
(* last yield every combination has been emitted and the count is the      *)
(* product of the sizes.                                                   *)
(***************************************************************************)
OptionIndex(axis, value) == CHOOSE i \in 1..Len(axis.options) : axis.options[i] = value

\* The digits (1-based option positions) of a variant.
Digits(space, variant) == [k \in 1..Len(space) |-> OptionIndex(space[k], variant[k])]

\* Increment with carry, least significant digit first.
RECURSIVE SuccDigits(_, _, _)
SuccDigits(space, digits, k) ==
    IF k > Len(space) THEN digits
    ELSE IF digits[k] < Len(space[k].options)
         THEN [digits EXCEPT ![k] = digits[k] + 1]
         ELSE SuccDigits(space, [digits EXCEPT ![k] = 1], k + 1)

RECURSIVE AllCombinations(_, _)
AllCombinations(space, k) ==
    IF k > Len(space) THEN {<<>>}
    ELSE { <<o>> \o rest : o \in Range(space[k].options), rest \in AllCombinations(space, k + 1) }

\* C10: the variants emitted are the Cartesian product of the axes' option
\* lists, each combination once, in mixed-radix counter order, the first
\* axis changing fastest.
VariantsAreMixedRadixProduct ==
    LET space == variantVectorSpace
        total == TotalVariants(space)
    IN  /\ Len(variants) = variantIndex
        /\ variantIndex <= total
        /\ Len(variants) >= 1 => \A k \in 1..Len(space) : variants[1][k] = space[k].options[1]
        /\ \A i \in 1..(Len(variants) - 1) :
              Digits(space, variants[i + 1]) = SuccDigits(space, Digits(space, variants[i]), 1)
        /\ \A i, j \in 1..Len(variants) : i # j => variants[i] # variants[j]
        /\ variantIndex = total =>
              /\ Range(variants) = AllCombinations(space, 1)
              /\ Cardinality(Range(variants)) = total

\* A full run over a space with several options on more than one axis.
GenWitness ==
    /\ variantIndex = TotalVariants(variantVectorSpace)
    /\ Len(variants) >= 8
    /\ Len(variantVectorSpace[1].options) = 2
    /\ Len(variantVectorSpace[2].options) >= 2

(***************************************************************************)
(* The order of the returned entries and of their definitions.            *)
(***************************************************************************)
\* C11: compareFunction of _sortTermDictionaryEntries is transitive on the
\* entries findTerms returns: when a is ordered before b and b before c then
\* a is ordered before c, and when a ties with b and b with c then a ties
\* with c.
EntryComparatorTransitive ==
    Returned =>
        \A a, b, c \in Range(ReturnedEntries) :
            /\ (CompareTermDictionaryEntries(a, b) < 0 /\ CompareTermDictionaryEntries(b, c) < 0)
                   => CompareTermDictionaryEntries(a, c) < 0
            /\ (CompareTermDictionaryEntries(a, b) = 0 /\ CompareTermDictionaryEntries(b, c) = 0)
                   => CompareTermDictionaryEntries(a, c) = 0

\* The headwords of an entry that have a primary source matched by the term.
ExactMatchHeadwords(entry) ==
    { h \in 1..Len(entry.headwords) :
        \E s \in 1..Len(entry.headwords[h].sources) :
            /\ entry.headwords[h].sources[s].isPrimary
            /\ entry.headwords[h].sources[s].matchSource = "term" }

\* C12: in every returned entry sourceTermExactMatchCount is the number of
\* the entry's headwords that have at least one source with isPrimary and
\* matchSource 'term'.
ExactMatchCountIsHeadwordCount ==
    Returned =>
        \A e \in 1..Len(ReturnedEntries) :
            ReturnedEntries[e].sourceTermExactMatchCount
                = Cardinality(ExactMatchHeadwords(ReturnedEntries[e]))

\* C13: in merge mode no returned entry has two definitions with the same
\* dictionary and the same entries (the key of _addTermDefinitions), in the
\* entries grouped by sequence and in the leftover entries grouped by
\* headword alike.
MergedDefinitionPayloadsUnique ==
    (Returned /\ mode = "merge") =>
        \A e \in 1..Len(ReturnedEntries) :
            \A d1, d2 \in 1..Len(ReturnedEntries[e].definitions) :
                (/\ ReturnedEntries[e].definitions[d1].dictionary
                        = ReturnedEntries[e].definitions[d2].dictionary
                 /\ ReturnedEntries[e].definitions[d1].entries
                        = ReturnedEntries[e].definitions[d2].entries) => d1 = d2

\* The frequencies of an entry in the dictionary the call sorts by.
SortFrequenciesOf(entry) ==
    { entry.frequencies[f].frequency : f \in
        { f \in 1..Len(entry.frequencies) :
            Some(entry.frequencies[f].dictionary) = options.sortFrequencyDictionary } }

\* Two entries tie on the keys that precede the frequency order.
TieBeforeFrequency(v1, v2) ==
    /\ v1.maxTransformedTextLength = v2.maxTransformedTextLength
    /\ Len(v1.inflectionHypotheses) = Len(v2.inflectionHypotheses)
    /\ v1.sourceTermExactMatchCount = v2.sourceTermExactMatchCount

SortsAscendingByFrequency ==
    /\ options.sortFrequencyDictionary # Null
    /\ options.sortFrequencyDictionaryOrder = "ascending"

\* C14: with a sort frequency dictionary and ascending order, of two returned
\* entries that tie on maxTransformedTextLength, number of hypotheses and
\* sourceTermExactMatchCount, the one with the smaller minimum frequency in
\* that dictionary comes first, and one without a frequency in it comes after
\* every one that has one.
AscendingFrequencyFirst ==
    (Returned /\ SortsAscendingByFrequency) =>
        \A i, j \in 1..Len(ReturnedEntries) :
            (/\ i < j
             /\ TieBeforeFrequency(ReturnedEntries[i], ReturnedEntries[j])
             /\ SortFrequenciesOf(ReturnedEntries[j]) # {})
            => /\ SortFrequenciesOf(ReturnedEntries[i]) # {}
               /\ SetMin(SortFrequenciesOf(ReturnedEntries[i]))
                      <= SetMin(SortFrequenciesOf(ReturnedEntries[j]))

\* A returned list in which an entry with a frequency precedes a tied entry
\* without one that has the higher score, and one in which the smaller of
\* two minimum frequencies is first.
AscendingFrequencyWitness ==
    /\ Returned
    /\ SortsAscendingByFrequency
    /\ \E i, j \in 1..Len(ReturnedEntries) :
          /\ i < j
          /\ TieBeforeFrequency(ReturnedEntries[i], ReturnedEntries[j])
          /\ SortFrequenciesOf(ReturnedEntries[i]) # {}
          /\ \/ /\ SortFrequenciesOf(ReturnedEntries[j]) = {}
                /\ ReturnedEntries[j].score > ReturnedEntries[i].score
             \/ /\ SortFrequenciesOf(ReturnedEntries[j]) # {}
                /\ SetMin(SortFrequenciesOf(ReturnedEntries[i]))
                       < SetMin(SortFrequenciesOf(ReturnedEntries[j]))
                /\ Len(ReturnedEntries[i].definitions) < Len(ReturnedEntries[j].definitions)

(***************************************************************************)
(* The inflection hypotheses of the entries.                               *)
(***************************************************************************)
\* Two inflection lists are equal as multisets: every inflection occurs as
\* often in the one as in the other.
SameMultiset(inflections1, inflections2) ==
    \A x \in Range(inflections1) \cup Range(inflections2) :
        Cardinality({ i \in 1..Len(inflections1) : inflections1[i] = x })
            = Cardinality({ i \in 1..Len(inflections2) : inflections2[i] = x })

\* The candidates that hit the database entry of an ungrouped entry with a
\* transformed text at least as long as the one recorded for the entry.
SightingsOf(entry) ==
    { k \in 1..Len(deinflections) :
        /\ \E x \in 1..Len(deinflections[k].databaseEntries) :
              deinflections[k].databaseEntries[x].id = entry.definitions[1].id
        /\ Len(deinflections[k].transformedText)
               >= Len(entry.headwords[1].sources[1].transformedText) }

\* C15: hypotheses are merged by multiset equality of their inflections: in
\* split and simple mode, every hypothesis of a candidate that hit an
\* entry's id with a transformed text at least as long as the recorded one
\* has a multiset-equal hypothesis among the entry's, because it was either
\* equal to an existing one or appended.
HypothesesMergedAsMultisets ==
    (Returned /\ mode \in {"split", "simple"}) =>
        \A e \in 1..Len(ReturnedEntries) :
            \A k \in SightingsOf(ReturnedEntries[e]) :
                \A h \in Range(deinflections[k].inflectionHypotheses) :
                    \E g \in Range(ReturnedEntries[e].inflectionHypotheses) :
                        SameMultiset(heap[h].inflections, heap[g].inflections)

\* The candidates that hit the database entry of an ungrouped entry.
CandidatesOf(entry) ==
    { k \in 1..Len(deinflections) :
        \E x \in 1..Len(deinflections[k].databaseEntries) :
            deinflections[k].databaseEntries[x].id = entry.definitions[1].id }

\* C16: entries share no mutable hypothesis record, so that merging
\* hypotheses into one entry leaves the hypotheses of the other entries
\* unchanged, sources included: in split and simple mode an entry whose
\* database entry was hit by one candidate only, a candidate of the
\* algorithm, still has the hypotheses it was created with, all of source
\* 'algorithm'.
UnmergedEntryHypothesesUnchanged ==
    (Returned /\ mode \in {"split", "simple"}) =>
        \A e \in 1..Len(ReturnedEntries) :
            \A k \in CandidatesOf(ReturnedEntries[e]) :
                (CandidatesOf(ReturnedEntries[e]) = {k} /\ ~deinflections[k].isDictionaryDeinflection)
                => /\ ReturnedEntries[e].inflectionHypotheses = deinflections[k].inflectionHypotheses
                   /\ \A g \in Range(ReturnedEntries[e].inflectionHypotheses) :
                         heap[g].source = "algorithm"


(***************************************************************************)
(* getTermFrequencies.                                                     *)
(***************************************************************************)
JsNull == [type |-> "null"]
JsUndefined == [type |-> "undefined"]

\* a === b on primitive values.
JsStrictEquals(a, b) ==
    /\ a.type = b.type
    /\ a.type = "number" => a.number = b.number
    /\ a.type = "string" => a.string = b.string

\* data.<name>, undefined when the object has no such property.
JsProperty(object, name) ==
    IF name \in DOMAIN object.fields THEN object.fields[name] ELSE JsUndefined

\* The body of the loop of getTermFrequencies for one freq meta: the records
\* pushed, none after `continue`.
TermFrequency(request, meta) ==
    Let(meta.data.type = "object", LAMBDA hasReading :
        IF hasReading /\ ~JsStrictEquals(JsProperty(meta.data, "reading"), request.reading)
                      /\ request.reading # JsNull
        THEN <<>>
        ELSE << [term |-> request.term,
                 reading |-> IF hasReading THEN JsProperty(meta.data, "reading") ELSE request.reading,
                 dictionary |-> meta.dictionary,
                 hasReading |-> hasReading,
                 frequency |-> IF hasReading THEN JsProperty(meta.data, "frequency")
                               ELSE meta.data] >>)

\* The loop of getTermFrequencies over the metas.
TermFrequencies(requests, metas) ==
    Flatten([k \in 1..Len(metas) |->
        IF metas[k].mode # "freq" THEN <<>>
        ELSE TermFrequency(requests[metas[k].index + 1], metas[k])])

\* The dictionarySet of getTermFrequencies, as the database takes it.
DictionarySet(names) == [i \in 1..Len(names) |-> [dictionary |-> names[i]]]

\* The arguments of the modelled calls.
MaxTermReadings == 2
RequestedTerms == { <<"a">>, <<"a", "s">>, <<"s", "a">> }
RequestedReadings == { JsNull, JsString(<<"a">>), JsString(<<"1">>) }
TermReadings == [term : RequestedTerms, reading : RequestedReadings]
TermReadingLists == UNION { [1..n -> TermReadings] : n \in 1..MaxTermReadings }
DictionaryLists == { <<>>, <<"F">>, <<"M">>, <<"F", "M">>, <<"M", "E", "F">> }

FreqInit ==
    /\ variantVectorSpace = <<>> /\ variantIndex = 0 /\ variants = <<>>
    /\ db = {} /\ mode = "split" /\ text = <<>> /\ options = BaseOptions
    /\ pc = "idle" /\ pending = NoQuery /\ queryLog = <<>> /\ deinflections = <<>>
    /\ heap = <<>> /\ dictionaryEntries = <<>> /\ originalTextLength = 0 /\ locals = <<>>
    /\ tagCache = <<>> /\ result = NoResult /\ error = NoError
    /\ termReadingList \in TermReadingLists
    /\ frequencyDictionaries \in DictionaryLists
    /\ termFrequencies = NoTermFrequencies
    /\ entryGroup = NoEntryGroup /\ groupedEntry = Null
    /\ scanText = Null /\ scanLength = 0 /\ scanUsed = {} /\ scanLog = <<>>
    /\ TagsIdle

\* getTermFrequencies(termReadingList, dictionaries) is called and runs to
\* its await.
GetTermFrequencies ==
    /\ pc = "idle"
    /\ Install(Issue(Call, "findTermMetaBulk", "termFrequencies",
                     [termList |-> [i \in 1..Len(termReadingList) |-> termReadingList[i].term],
                      dictionaryMap |-> DictionarySet(frequencyDictionaries)],
                     "termFrequencyMetas"))
    /\ UNCHANGED <<genVars, freqVars, foldVars, scanVars, tagVars, db, mode, text, options>>

\* The metas arrive: the loop runs and the results are returned.
OnTermFrequencyMetas ==
    /\ pc = "termFrequencyMetas"
    /\ termFrequencies' =
           [returned |-> TRUE,
            frequencies |-> TermFrequencies(termReadingList,
                FindTermMetaBulk(pending.args.termList, pending.args.dictionaryMap))]
    /\ Install([Fulfilled(Call) EXCEPT !.pc = "done"])
    /\ UNCHANGED <<genVars, foldVars, scanVars, tagVars, termReadingList, frequencyDictionaries, db, mode, text, options>>

\* The database fails the query: getTermFrequencies has no try/catch and
\* rejects.
TermFrequenciesRejected ==
    /\ pc = "termFrequencyMetas"
    /\ \E err \in DbErrors : Install(Rejected(Call, err))
    /\ UNCHANGED <<genVars, freqVars, foldVars, scanVars, tagVars, db, mode, text, options>>

FreqNext ==
    \/ GetTermFrequencies
    \/ OnTermFrequencyMetas
    \/ TermFrequenciesRejected

SpecFreq == FreqInit /\ [][FreqNext]_vars

\* The freq metas of the database that answer the request: of the term and
\* of a requested dictionary.
FreqMetasFor(request) ==
    { k \in 1..Len(TermMetaRows) :
        /\ TermMetaRows[k].mode = "freq"
        /\ TermMetaRows[k].term = request.term
        /\ \E i \in 1..Len(frequencyDictionaries) : frequencyDictionaries[i] = TermMetaRows[k].dictionary }

\* The meta data specifies a reading: it has the form {reading, frequency}.
SpecifiesReading(data) == data.type = "object" /\ "reading" \in DOMAIN data.fields

\* The frequency value of a data without a reading.
FrequencyValues(data) ==
    IF data.type = "object" THEN {data, JsProperty(data, "value")} ELSE {data}

\* C17: getTermFrequencies returns records of freq metas and requested pairs
\* only, hasReading being true exactly when the meta's data specifies a
\* reading; a meta whose data specifies a reading different from a non-null
\* requested reading gives no record; a meta whose data specifies no reading
\* (a number, a string or {value, displayValue}) gives a record for any
\* requested reading, with its frequency value.
TermFrequenciesByReading ==
    termFrequencies.returned =>
        /\ \A f \in Range(termFrequencies.frequencies) :
              \E i \in 1..Len(termReadingList) : \E k \in FreqMetasFor(termReadingList[i]) :
                  /\ f.term = termReadingList[i].term
                  /\ f.dictionary = TermMetaRows[k].dictionary
                  /\ f.hasReading = SpecifiesReading(TermMetaRows[k].data)
        /\ \A i \in 1..Len(termReadingList) : \A k \in FreqMetasFor(termReadingList[i]) :
              IF SpecifiesReading(TermMetaRows[k].data)
              THEN (/\ termReadingList[i].reading # JsNull
                    /\ termReadingList[i].reading # TermMetaRows[k].data.fields.reading)
                   => ~\E f \in Range(termFrequencies.frequencies) :
                          /\ f.term = termReadingList[i].term
                          /\ f.dictionary = TermMetaRows[k].dictionary
                          /\ f.reading = termReadingList[i].reading
              ELSE \E f \in Range(termFrequencies.frequencies) :
                      /\ f.term = termReadingList[i].term
                      /\ f.dictionary = TermMetaRows[k].dictionary
                      /\ f.reading = termReadingList[i].reading
                      /\ ~f.hasReading
                      /\ f.frequency \in FrequencyValues(TermMetaRows[k].data)


(***************************************************************************)
(* _createGroupedDictionaryEntry on a group of one entry.                  *)
(***************************************************************************)
\* The hypothesis objects of the entries to fold.
FoldHeap == << [source |-> "algorithm", inflections |-> <<"pl">>] >>

\* The rows that are not form-of rows: _findTermsInternal creates no entry
\* for a row tagged non-lemma.
LemmaRows == { r \in DOMAIN RowUniverse : ~Includes(RowUniverse[r].definitionTags, NonLemma) }

\* The entries _findTermsInternal creates for a row: primary, hit by its
\* reading (when that is not its term) or by its term, the text being the
\* candidate or the candidate with "s".
PrimaryEntries ==
    { CreateTermDictionaryEntryFromDatabaseEntry(
          DatabaseEntry(RowUniverse[r], 0, "reading"),
          RowUniverse[r].reading \o suffix, RowUniverse[r].reading \o suffix, RowUniverse[r].reading,
          IF suffix = <<>> THEN <<>> ELSE <<1>>,
          TRUE, EnabledDictionaryMap) :
        r \in { x \in LemmaRows : /\ Len(RowUniverse[x].reading) > 0
                                  /\ RowUniverse[x].reading # RowUniverse[x].term },
        suffix \in { <<>>, <<"s">> } }
    \cup
    { CreateTermDictionaryEntryFromDatabaseEntry(
          DatabaseEntry(RowUniverse[r], 0, "term"),
          RowUniverse[r].term \o suffix, RowUniverse[r].term \o suffix, RowUniverse[r].term,
          IF suffix = <<>> THEN <<>> ELSE <<1>>,
          TRUE, EnabledDictionaryMap) :
        r \in LemmaRows, suffix \in { <<>>, <<"s">> } }

\* The entries _addRelatedDictionaryEntries and
\* _addSecondaryRelatedDictionaryEntries create for a row: not primary, the
\* three texts being the term.
RelatedEntries ==
    { CreateTermDictionaryEntryFromDatabaseEntry(
          DatabaseEntry(RowUniverse[r], 0, "term"),
          RowUniverse[r].term, RowUniverse[r].term, RowUniverse[r].term,
          <<>>, FALSE, EnabledDictionaryMap) :
        r \in DOMAIN RowUniverse }

FoldInit ==
    /\ variantVectorSpace = <<>> /\ variantIndex = 0 /\ variants = <<>>
    /\ db = {} /\ mode = "split" /\ text = <<>> /\ options = BaseOptions
    /\ pc = "idle" /\ pending = NoQuery /\ queryLog = <<>> /\ deinflections = <<>>
    /\ heap = FoldHeap /\ dictionaryEntries = <<>> /\ originalTextLength = 0 /\ locals = <<>>
    /\ tagCache = <<>> /\ result = NoResult /\ error = NoError
    /\ termReadingList = <<>> /\ frequencyDictionaries = <<>> /\ termFrequencies = NoTermFrequencies
    /\ \E e \in PrimaryEntries \cup RelatedEntries, check \in BOOLEAN :
          entryGroup = [dictionaryEntries |-> <<e>>, checkDuplicateDefinitions |-> check]
    /\ groupedEntry = Null
    /\ scanText = Null /\ scanLength = 0 /\ scanUsed = {} /\ scanLog = <<>>
    /\ TagsIdle

\* _createGroupedDictionaryEntry(dictionaryEntries, checkDuplicateDefinitions)
\* is called and returns.
FoldGroup ==
    /\ groupedEntry = Null
    /\ groupedEntry' = Some(CreateGroupedDictionaryEntry(entryGroup.dictionaryEntries,
                                                         entryGroup.checkDuplicateDefinitions))
    /\ UNCHANGED <<genVars, freqVars, scanVars, tagVars, callVars, entryGroup>>

FoldNext == FoldGroup

SpecFold == FoldInit /\ [][FoldNext]_vars

\* The folded entry has the headwords, definitions, score, dictionary order,
\* primary flag and hypotheses of the entry e.
FoldKeeps(e, f) ==
    /\ f.headwords = e.headwords
    /\ f.definitions = e.definitions
    /\ f.score = e.score
    /\ f.dictionaryIndex = e.dictionaryIndex
    /\ f.dictionaryPriority = e.dictionaryPriority
    /\ f.isPrimary = e.isPrimary
    /\ f.inflectionHypotheses = e.inflectionHypotheses

RECURSIVE LexicographicCompare(_, _, _)
LexicographicCompare(list1, list2, j) ==
    IF j > Len(list1) /\ j > Len(list2) THEN 0
    ELSE IF j > Len(list1) THEN -1
    ELSE IF j > Len(list2) THEN 1
    ELSE IF list1[j] # list2[j] THEN list1[j] - list2[j]
    ELSE LexicographicCompare(list1, list2, j + 1)

\* The keys of the definition order, one after the other; the first one that
\* differs decides.
DefinitionOrderKeys(v1, v2) ==
    << v1.frequencyOrder - v2.frequencyOrder,
       v2.dictionaryPriority - v1.dictionaryPriority,
       v2.score - v1.score,
       LexicographicCompare(v1.headwordIndices, v2.headwordIndices, 1),
       v1.dictionaryIndex - v2.dictionaryIndex,
       ScoreFromTags(v2.tags) - ScoreFromTags(v1.tags),
       v1.index - v2.index >>

InDefinitionOrder(v1, v2) ==
    LET keys == DefinitionOrderKeys(v1, v2)
    IN  \A k \in 1..Len(keys) : keys[k] > 0 => \E k2 \in 1..(k - 1) : keys[k2] < 0

\* C19: within each returned entry the definitions are ordered by ascending
\* frequencyOrder, then descending dictionaryPriority, then descending score,
\* then ascending lexicographic order of their headwordIndices, then
\* ascending dictionaryIndex, then descending sum of the tag scores, then
\* ascending original index.
DefinitionsInDefinitionOrder ==
    Returned =>
        \A e \in 1..Len(ReturnedEntries) :
            \A i, j \in 1..Len(ReturnedEntries[e].definitions) :
                i < j => InDefinitionOrder(ReturnedEntries[e].definitions[i],
                                           ReturnedEntries[e].definitions[j])


\* The partOfSpeech tags of a definition, and their names as
\* _flagRedundantDefinitionTags compares them.
PartOfSpeechTags(definition) == SelectSeq(definition.tags, LAMBDA tag : tag.category = "partOfSpeech")
PartOfSpeechNames(definition) == GetTagNamesWithCategory(definition.tags, "partOfSpeech")

\* The definition before definition d of the list is of the same dictionary
\* and has the same partOfSpeech tag names.
RepeatsPartOfSpeech(definitions, d) ==
    /\ d > 1
    /\ definitions[d - 1].dictionary = definitions[d].dictionary
    /\ PartOfSpeechNames(definitions[d - 1]) = PartOfSpeechNames(definitions[d])

\* C20: in each returned entry, in the returned order of its definitions,
\* the partOfSpeech tags of a definition are flagged redundant exactly when
\* the definition before it is of the same dictionary and has the same
\* partOfSpeech tag names; the first definition of a run of one dictionary has
\* no redundant partOfSpeech tag.
RedundantExactlyWhenRepeated ==
    Returned =>
        \A e \in 1..Len(ReturnedEntries) :
            \A d \in 1..Len(ReturnedEntries[e].definitions) :
                \A tag \in Range(PartOfSpeechTags(ReturnedEntries[e].definitions[d])) :
                    tag.redundant <=> RepeatsPartOfSpeech(ReturnedEntries[e].definitions, d)


(***************************************************************************)
(* The frequency order of the definitions.                                 *)
(***************************************************************************)
\* The frequencies, in the dictionary the call sorts by, of the headwords of
\* definition d of the entry.
SortFrequenciesOfDefinition(entry, d) ==
    { entry.frequencies[f].frequency : f \in
        { f \in 1..Len(entry.frequencies) :
            /\ Some(entry.frequencies[f].dictionary) = options.sortFrequencyDictionary
            /\ Includes(entry.definitions[d].headwordIndices, entry.frequencies[f].headwordIndex) } }

\* C21: with a sort frequency dictionary, the frequencyOrder of a definition
\* is the minimum (ascending) or the negated maximum (descending) of all the
\* frequencies of that dictionary whose headwordIndex is one of the
\* definition's headwordIndices, and MAX_SAFE_INTEGER (ascending) or 0
\* (descending) when there is none.
DefinitionFrequencyOrderOverAllRecords ==
    (Returned /\ options.sortFrequencyDictionary # Null) =>
        \A e \in 1..Len(ReturnedEntries) :
            \A d \in 1..Len(ReturnedEntries[e].definitions) :
                ReturnedEntries[e].definitions[d].frequencyOrder =
                    LET found == SortFrequenciesOfDefinition(ReturnedEntries[e], d)
                        ascending == options.sortFrequencyDictionaryOrder = "ascending"
                    IN  IF found = {} THEN (IF ascending THEN MaxSafeInteger ELSE 0)
                        ELSE IF ascending THEN SetMin(found) ELSE -SetMax(found)


(***************************************************************************)
(* The candidates synthesized from form-of entries.                        *)
(***************************************************************************)
\* The call waits for the lookup of the synthesized candidates.
DictionaryCandidatesSynthesized == pc = "dictionaryDeinflectionTerms"

\* The pairs of a candidate and a hit of it tagged non-lemma, in the order of
\* the candidates and of their hits.
NonLemmaHits ==
    Flatten([k \in 1..Len(deinflections) |->
        Let(SelectSeq(deinflections[k].databaseEntries,
                      LAMBDA entry : Includes(entry.definitionTags, NonLemma)), LAMBDA hits :
            [x \in 1..Len(hits) |-> [candidate |-> deinflections[k], hit |-> hits[x]]])])

\* The synthesized hypothesis made of algorithm hypothesis a of the candidate
\* and dictionary hypothesis h of the hit.
SynthesizedHypothesis(synthesized, pair, h, a) ==
    heap[synthesized.inflectionHypotheses[(h - 1) * Len(pair.candidate.inflectionHypotheses) + a]]

\* C22: every hit tagged non-lemma gives a synthesized candidate with the
\* lemma formOf whose hypotheses are the cross product of the candidate's
\* algorithm hypotheses with the hit's dictionary hypotheses, algorithm
\* inflections first; the source of a synthesized hypothesis is 'both'
\* exactly when both hypotheses carry an inflection, and 'dictionary' when
\* only the dictionary hypothesis does; the number of synthesized hypotheses
\* is the product of the two counts.
SynthesizedHypothesesAreCrossProduct ==
    DictionaryCandidatesSynthesized =>
        /\ Len(locals.dictionaryDeinflections) = Len(NonLemmaHits)
        /\ \A p \in 1..Len(NonLemmaHits) :
              LET pair == NonLemmaHits[p]
                  synthesized == locals.dictionaryDeinflections[p]
                  algHypotheses == pair.candidate.inflectionHypotheses
                  hypotheses == pair.hit.inflectionHypotheses
              IN  /\ synthesized.deinflectedText = pair.hit.formOf
                  /\ Len(synthesized.inflectionHypotheses) = Len(algHypotheses) * Len(hypotheses)
                  /\ \A h \in 1..Len(hypotheses) : \A a \in 1..Len(algHypotheses) :
                        LET algorithm == heap[algHypotheses[a]].inflections
                            made == SynthesizedHypothesis(synthesized, pair, h, a)
                        IN  /\ made.inflections = algorithm \o hypotheses[h]
                            /\ made.source = "both" <=> (algorithm # <<>> /\ hypotheses[h] # <<>>)
                            /\ (algorithm = <<>> /\ hypotheses[h] # <<>>) => made.source = "dictionary"

\* C22, amended: as C22, but the source of a synthesized hypothesis is 'both'
\* exactly when the algorithm hypothesis carries an inflection, and
\* 'dictionary' otherwise, whatever the dictionary hypothesis carries.
SynthesizedSourceFollowsAlgorithm ==
    DictionaryCandidatesSynthesized =>
        /\ Len(locals.dictionaryDeinflections) = Len(NonLemmaHits)
        /\ \A p \in 1..Len(NonLemmaHits) :
              LET pair == NonLemmaHits[p]
                  synthesized == locals.dictionaryDeinflections[p]
                  algHypotheses == pair.candidate.inflectionHypotheses
                  hypotheses == pair.hit.inflectionHypotheses
              IN  /\ synthesized.deinflectedText = pair.hit.formOf
                  /\ Len(synthesized.inflectionHypotheses) = Len(algHypotheses) * Len(hypotheses)
                  /\ \A h \in 1..Len(hypotheses) : \A a \in 1..Len(algHypotheses) :
                        LET algorithm == heap[algHypotheses[a]].inflections
                            made == SynthesizedHypothesis(synthesized, pair, h, a)
                        IN  /\ made.inflections = algorithm \o hypotheses[h]
                            /\ made.source = IF algorithm # <<>> THEN "both" ELSE "dictionary"

\* A candidate with an algorithm inflection has hit a form-of entry with two
\* hypotheses, one of them without inflections: two hypotheses are
\* synthesized, both of source 'both'.
SynthesizedFromEmptyDictionaryHypothesis ==
    /\ DictionaryCandidatesSynthesized
    /\ \E p \in 1..Len(NonLemmaHits) :
          /\ Len(NonLemmaHits[p].candidate.inflectionHypotheses) = 1
          /\ heap[NonLemmaHits[p].candidate.inflectionHypotheses[1]].inflections # <<>>
          /\ Len(NonLemmaHits[p].hit.inflectionHypotheses) = 2
          /\ NonLemmaHits[p].hit.inflectionHypotheses[2] = <<>>
          /\ Len(locals.dictionaryDeinflections[p].inflectionHypotheses) = 2
          /\ heap[locals.dictionaryDeinflections[p].inflectionHypotheses[2]].source = "both"


(***************************************************************************)
(* The loops of _getAlgorithmDeinflections as a process: one step per      *)
(* variant taken from the generator and one per iteration of the while     *)
(* loop (every iteration awaits the deinflector).                          *)
(***************************************************************************)
MaxScanLength == 3
ScanTexts == UNION { [1..n -> {"a", "A", "s", " ", "1"}] : n \in 1..MaxScanLength }
ScanOptions ==
    { [BaseOptions EXCEPT !.searchResolution = resolution, !.textTransformations = transformations] :
        resolution \in {"letter", "word"},
        transformations \in
            { << [id |-> "decapitalize", setting |-> "false"] >>,
              << [id |-> "decapitalize", setting |-> "variant"] >>,
              << [id |-> "decapitalize", setting |-> "variant"],
                 [id |-> "capitalizeFirstLetter", setting |-> "variant"] >> } }

\* text2 of the variant of the index.
VariantText(idx) ==
    ApplyTransformations(text, GenerateArrayVariant(variantVectorSpace, idx),
                         GetTextTransformations(options), 1)

\* (mutant) the word search gives the end of the match
PrefixLengthAfterAtMatchEnd(source, length, opts) ==
    IF opts.searchResolution = "word"
    THEN (IF SearchWordBoundary(source) < 0 THEN -1 ELSE Len(source))
    ELSE length - 1

\* The value of i after an iteration of the while loop.
PrefixLengthAfter(source, length, opts) ==
    IF opts.searchResolution = "word" THEN SearchWordBoundary(source) ELSE length - 1

\* (mutant) no source counts as tried
IsUsedNever(used, source) == FALSE

\* used.has(source)
IsUsed(used, source) == source \in used

ScanInit ==
    /\ text \in ScanTexts
    /\ options \in ScanOptions
    /\ variantVectorSpace = VariantVectorSpace(options.textReplacements,
                                               options.collapseEmphaticSequences,
                                               GetTextTransformations(options))
    /\ variantIndex = 0
    /\ variants = <<>>
    /\ db = {} /\ mode = "split"
    /\ pc = "idle" /\ pending = NoQuery /\ queryLog = <<>> /\ deinflections = <<>>
    /\ heap = <<>> /\ dictionaryEntries = <<>> /\ originalTextLength = 0 /\ locals = <<>>
    /\ tagCache = <<>> /\ result = NoResult /\ error = NoError
    /\ termReadingList = <<>> /\ frequencyDictionaries = <<>> /\ termFrequencies = NoTermFrequencies
    /\ entryGroup = NoEntryGroup /\ groupedEntry = Null
    /\ scanText = Null /\ scanLength = 0 /\ scanUsed = {} /\ scanLog = <<>>
    /\ TagsIdle

\* The for loop takes the next variant from the generator: text2 is made and
\* i starts at its length.
ScanVariant ==
    /\ scanText = Null
    /\ variantIndex < TotalVariants(variantVectorSpace)
    /\ variants' = Append(variants, GenerateArrayVariant(variantVectorSpace, variantIndex))
    /\ variantIndex' = variantIndex + 1
    /\ scanText' = Some(VariantText(variantIndex))
    /\ scanLength' = Len(VariantText(variantIndex))
    /\ UNCHANGED <<variantVectorSpace, scanUsed, scanLog, freqVars, foldVars, callVars, tagVars>>

\* One iteration of the while loop that does not break: the source is
\* recorded as used and turned into candidates, and i is set for the next
\* iteration.
ScanPrefix ==
    /\ scanText # Null
    /\ scanLength > 0
    /\ ~IsUsed(scanUsed, SubSeq(scanText[1], 1, scanLength))
    /\ scanUsed' = scanUsed \cup {SubSeq(scanText[1], 1, scanLength)}
    /\ scanLog' = Append(scanLog, [variant |-> variantIndex - 1, length |-> scanLength,
                                   source |-> SubSeq(scanText[1], 1, scanLength)])
    /\ scanLength' = PrefixLengthAfter(SubSeq(scanText[1], 1, scanLength), scanLength, options)
    /\ UNCHANGED <<genVars, scanText, freqVars, foldVars, callVars, tagVars>>

\* The while loop ends: i is not positive, or the source was tried before.
ScanVariantDone ==
    /\ scanText # Null
    /\ scanLength <= 0 \/ IsUsed(scanUsed, SubSeq(scanText[1], 1, scanLength))
    /\ scanText' = Null
    /\ UNCHANGED <<genVars, scanLength, scanUsed, scanLog, freqVars, foldVars, callVars, tagVars>>

ScanNext ==
    \/ ScanVariant
    \/ ScanPrefix
    \/ ScanVariantDone

SpecScan == ScanInit /\ [][ScanNext]_vars

\* The iterations a variant has performed.
IterationsOf(idx) == { p \in 1..Len(scanLog) : scanLog[p].variant = idx }

\* C23: the prefix loop terminates: every iteration leaves i strictly below
\* its value, in letter and in word resolution, and a variant performs at
\* most as many iterations as its text has characters.
PrefixLengthDecreases ==
    /\ [][ScanPrefix => scanLength' < scanLength]_vars
    /\ [](\A idx \in 0..(variantIndex - 1) : Cardinality(IterationsOf(idx)) <= Len(VariantText(idx)))

\* An iteration in word resolution has taken i from 3 down to 1, past a
\* letter.
WordResolutionJump ==
    /\ options.searchResolution = "word"
    /\ \E p \in 1..Len(scanLog) : scanLog[p].length = 3
    /\ scanText # Null
    /\ scanLength = 1


(***************************************************************************)
(* The members of a sequence group.                                        *)
(***************************************************************************)
\* The entry was folded from a sequence group: it holds a primary definition
\* of the main dictionary that has a sequence.
FoldedFromSequenceGroup(entry) ==
    \E d \in 1..Len(entry.definitions) :
        /\ entry.definitions[d].isPrimary
        /\ Some(entry.definitions[d].dictionary) = options.mainDictionary
        /\ entry.definitions[d].sequences[1] >= 0

\* C24: in merge mode the members of a sequence group are in ascending order
\* of definition id at the moment the group is folded: the index of a
\* definition of the folded entry is the position at which the fold met it,
\* so the definitions' ids ascend with their indices.
SequenceGroupFoldedInIdOrder ==
    (Returned /\ mode = "merge") =>
        \A e \in 1..Len(ReturnedEntries) :
            FoldedFromSequenceGroup(ReturnedEntries[e]) =>
                \A d1, d2 \in 1..Len(ReturnedEntries[e].definitions) :
                    ReturnedEntries[e].definitions[d1].index < ReturnedEntries[e].definitions[d2].index
                    => ReturnedEntries[e].definitions[d1].id < ReturnedEntries[e].definitions[d2].id


(***************************************************************************)
(* Prefix scanning and the deinflect option.                               *)
(***************************************************************************)
\* The lemma rows of the database whose term is the given text.
LemmaRowsOfTerm(source) ==
    { r \in db \cap LemmaRows : RowUniverse[r].term = source }

\* The lengths of the proper prefixes of the text that are headwords.
HeadwordPrefixLengths ==
    { i \in 1..(Len(text) - 1) : LemmaRowsOfTerm(SubSeq(text, 1, i)) # {} }

\* C25: prefix scanning does not depend on the deinflect option: with
\* deinflect false, a text that is no term of the database and has a proper
\* prefix p that is a headword yields an entry for p, and the returned
\* originalTextLength is the length of the longest such prefix.
PrefixesScannedWithoutDeinflect ==
    (Returned /\ ~options.deinflect /\ HeadwordPrefixLengths # {}
              /\ \A r \in db : RowUniverse[r].term # text /\ RowUniverse[r].reading # text) =>
        /\ \A i \in HeadwordPrefixLengths :
              \E e \in 1..Len(ReturnedEntries) : \E h \in 1..Len(ReturnedEntries[e].headwords) :
                  ReturnedEntries[e].headwords[h].term = SubSeq(text, 1, i)
        /\ \E i \in HeadwordPrefixLengths :
              /\ result.originalTextLength = i
              /\ \A j \in HeadwordPrefixLengths : j <= i


\* The variants whose while loop has ended.
ScannedVariants ==
    IF scanText = Null THEN 0..(variantIndex - 1) ELSE 0..(variantIndex - 2)

\* The iterations of the while loop, of any variant, that took the source.
IterationsWith(source) == { p \in 1..Len(scanLog) : scanLog[p].source = source }

\* C26: with letter resolution every prefix of every text variant is turned
\* into candidates exactly once during the call: the break taken at a prefix
\* an earlier variant tried leaves no shorter prefix of the variant untried.
EveryPrefixTriedOnce ==
    options.searchResolution = "letter" =>
        \A idx \in ScannedVariants : \A i \in 1..Len(VariantText(idx)) :
            Cardinality(IterationsWith(SubSeq(VariantText(idx), 1, i))) = 1

\* A scan in letter resolution that is over, one variant of which tried its
\* longest prefix and left the loop at a shorter one that was tried before.
LeftAtTriedPrefix ==
    /\ options.searchResolution = "letter"
    /\ scanText = Null
    /\ variantIndex = TotalVariants(variantVectorSpace)
    /\ \E idx \in ScannedVariants :
          /\ IterationsOf(idx) # {}
          /\ Cardinality(IterationsOf(idx)) < Len(VariantText(idx))


(***************************************************************************)
(* Form entries in the result.                                             *)
(***************************************************************************)
\* C27: no definition of a returned entry, in any mode, comes from a database
\* entry whose definition tags include non-lemma.
NoDefinitionFromNonLemmaRow ==
    Returned =>
        \A e \in 1..Len(ReturnedEntries) : \A d \in 1..Len(ReturnedEntries[e].definitions) :
            ReturnedEntries[e].definitions[d].id \in LemmaRows


(***************************************************************************)
(* The frequency records of one term-meta record.                          *)
(***************************************************************************)
\* The frequency information of a freq record of the database for a headword
\* reading: none when the record names another reading.
FrequencyInfoOfMeta(meta, reading) ==
    IF meta.data.type = "object" /\ JsProperty(meta.data, "reading").type = "string"
    THEN IF meta.data.fields.reading.string = reading
         THEN {GetFrequencyInfo(JsProperty(meta.data, "frequency"))} ELSE {}
    ELSE {GetFrequencyInfo(meta.data)}

\* C28: the frequency records created from one term-meta freq record, one
\* per headword of its term and reading, carry the same frequency,
\* displayValue and displayValueParsed: those _getFrequencyInfo gives for the
\* record's data, which the first of them carries.
FrequenciesOfOneMetaAgree ==
    Returned =>
        \A e \in 1..Len(ReturnedEntries) : \A f \in 1..Len(ReturnedEntries[e].frequencies) :
            Let(ReturnedEntries[e].frequencies[f], LAMBDA record :
            Let(ReturnedEntries[e].headwords[record.headwordIndex + 1], LAMBDA headword :
                \E m \in 1..Len(TermMetaRows) :
                    /\ TermMetaRows[m].mode = "freq"
                    /\ TermMetaRows[m].term = headword.term
                    /\ TermMetaRows[m].dictionary = record.dictionary
                    /\ \E info \in FrequencyInfoOfMeta(TermMetaRows[m], headword.reading) :
                          /\ record.frequency = info.frequency
                          /\ record.displayValue = info.displayValue
                          /\ record.displayValueParsed = info.displayValueParsed))


(***************************************************************************)
(* The original text of the primary sources.                               *)
(***************************************************************************)
\* The primary sources of the returned entries.
ReturnedPrimarySources ==
    { s \in UNION { UNION { Range(ReturnedEntries[e].headwords[h].sources)
                            : h \in 1..Len(ReturnedEntries[e].headwords) }
                    : e \in 1..Len(ReturnedEntries) } : s.isPrimary }

\* C30: the original text of every primary source of a returned entry is a
\* prefix of the text of the call and no longer than the returned
\* originalTextLength, entries of dictionary deinflections included.
PrimarySourcesArePrefixes ==
    Returned =>
        \A s \in ReturnedPrimarySources :
            /\ Len(s.originalText) <= Len(text)
            /\ s.originalText = SubSeq(text, 1, Len(s.originalText))
            /\ Len(s.originalText) <= result.originalTextLength

\* A returned entry reached through form entries only: every candidate that
\* hit its database entry is a dictionary deinflection, and its primary
\* source has an original text as long as the returned originalTextLength.
PrimarySourceOfDictionaryDeinflection ==
    /\ Returned
    /\ \E e \in 1..Len(ReturnedEntries) :
          /\ CandidatesOf(ReturnedEntries[e]) # {}
          /\ \A k \in CandidatesOf(ReturnedEntries[e]) : deinflections[k].isDictionaryDeinflection
          /\ \E s \in Range(ReturnedEntries[e].headwords[1].sources) :
                /\ s.isPrimary
                /\ Len(s.originalText) = result.originalTextLength
                /\ s.deinflectedText # s.transformedText


(***************************************************************************)
(* Concurrent _expandTagGroups calls and clearDatabaseCaches: the calls of *)
(* findTerms and findKanji that are expanding their tags, each suspended   *)
(* at most at its findTagMetaBulk, and the cache they share.  A cached     *)
(* record carries the number of clears at the time its query was issued.   *)
(***************************************************************************)
MaxExpansions == 3
MaxClears == 2

TagTarget(dictionary, tagNames) ==
    [tagGroups |-> <<[dictionary |-> dictionary, tagNames |-> tagNames]>>]

\* The tag targets of a call.
TagTargetLists ==
    { <<TagTarget("M", <<<<"P">>>>)>>,
      <<TagTarget("M", <<<<"P", ":", "1">>, <<"n">>>>)>>,
      <<TagTarget("M", <<<<"n">>>>), TagTarget("E", <<<<"n">>>>)>> }

\* Map.prototype.has, get and set of a per-dictionary cache, a sequence of
\* [query, databaseTag, issued].
TagMapHas(map, query) == \E j \in 1..Len(map) : map[j].query = query
TagMapGet(map, query) == map[CHOOSE j \in 1..Len(map) : map[j].query = query]
TagMapSet(map, query, databaseTag, issued) ==
    IF TagMapHas(map, query)
    THEN [j \in 1..Len(map) |->
             IF map[j].query = query
             THEN [query |-> query, databaseTag |-> databaseTag, issued |-> issued] ELSE map[j]]
    ELSE Append(map, [query |-> query, databaseTag |-> databaseTag, issued |-> issued])

\* The loop over targetMap: a dictionary without a cache gets a new Map.
RECURSIVE EnsureTagCaches(_, _, _)
EnsureTagCaches(top, maps, dictionaries) ==
    IF dictionaries = <<>> THEN [top |-> top, maps |-> maps]
    ELSE IF MapHas(top, Head(dictionaries))
    THEN EnsureTagCaches(top, maps, Tail(dictionaries))
    ELSE EnsureTagCaches(Append(top, [dictionary |-> Head(dictionaries), cache |-> Len(maps) + 1]),
                         Append(maps, <<>>), Tail(dictionaries))

\* _expandTagGroups up to its await: the caches, the items that were not
\* cached, each with the Map it found (item.cache), and the items answered
\* from the cache.
BeginExpandTagGroups(top, maps, tagTargets) ==
    Let(ItemsByDictionary(AllTagItems(tagTargets)), LAMBDA items :
    Let(EnsureTagCaches(top, maps, UniqueInOrder([k \in 1..Len(items) |-> items[k].dictionary], {})),
        LAMBDA caches :
    Let([k \in 1..Len(items) |->
            [query |-> items[k].query, dictionary |-> items[k].dictionary,
             tagName |-> items[k].tagName,
             cache |-> MapGet(caches.top, items[k].dictionary).cache]], LAMBDA withCache :
        [top |-> caches.top, maps |-> caches.maps,
         nonCachedItems |-> SelectSeq(withCache, LAMBDA item :
                                ~TagMapHas(caches.maps[item.cache], item.query)),
         cachedItems |-> SelectSeq(withCache, LAMBDA item :
                                TagMapHas(caches.maps[item.cache], item.query))])))

\* (mutant) the reply is stored in the cache the translator has for the
\* dictionary when the reply arrives
ItemCacheOfTranslator(item, top) ==
    IF MapHas(top, item.dictionary) THEN MapGet(top, item.dictionary).cache ELSE item.cache

\* The Map a reply is stored in: item.cache, as found before the await.
ItemCache(item, top) == item.cache

\* The loop after the reply of findTagMetaBulk.
RECURSIVE StoreTagReplies(_, _, _, _, _, _)
StoreTagReplies(maps, top, nonCachedItems, databaseTags, issued, i) ==
    IF i > Len(nonCachedItems) THEN maps
    ELSE StoreTagReplies(
             [maps EXCEPT ![ItemCache(nonCachedItems[i], top)] =
                 TagMapSet(@, nonCachedItems[i].query, databaseTags[i], issued)],
             top, nonCachedItems, databaseTags, issued, i + 1)

TagsInit ==
    /\ variantVectorSpace = <<>> /\ variantIndex = 0 /\ variants = <<>>
    /\ db = {} /\ mode = "split" /\ text = <<>> /\ options = BaseOptions
    /\ pc = "idle" /\ pending = NoQuery /\ queryLog = <<>> /\ deinflections = <<>>
    /\ heap = <<>> /\ dictionaryEntries = <<>> /\ originalTextLength = 0 /\ locals = <<>>
    /\ tagCache = <<>> /\ result = NoResult /\ error = NoError
    /\ termReadingList = <<>> /\ frequencyDictionaries = <<>> /\ termFrequencies = NoTermFrequencies
    /\ entryGroup = NoEntryGroup /\ groupedEntry = Null
    /\ scanText = Null /\ scanLength = 0 /\ scanUsed = {} /\ scanLog = <<>>
    /\ TagsIdle

\* A caller enters _expandTagGroups and runs it to the await, or to the end
\* when every item was cached.
ExpandTagGroups(c, tagTargets) ==
    /\ expansions[c].pc = "idle"
    /\ expansionsStarted < MaxExpansions
    /\ translatorTagCache' = BeginExpandTagGroups(translatorTagCache, tagCacheMaps, tagTargets).top
    /\ tagCacheMaps' = BeginExpandTagGroups(translatorTagCache, tagCacheMaps, tagTargets).maps
    /\ served' = served \cup
          { [query |-> item.query, dictionary |-> item.dictionary, at |-> clears,
             issued |-> TagMapGet(tagCacheMaps[item.cache], item.query).issued] :
            item \in Range(BeginExpandTagGroups(translatorTagCache, tagCacheMaps, tagTargets).cachedItems) }
    /\ expansions' = [expansions EXCEPT ![c] =
          Let(BeginExpandTagGroups(translatorTagCache, tagCacheMaps, tagTargets).nonCachedItems,
              LAMBDA nonCachedItems :
                  IF nonCachedItems = <<>> THEN NoExpansion
                  ELSE [pc |-> "awaiting", nonCachedItems |-> nonCachedItems, issued |-> clears])]
    /\ expansionsStarted' = expansionsStarted + 1
    /\ UNCHANGED <<clears, genVars, callVars, freqVars, foldVars, scanVars>>

\* findTagMetaBulk replies: the caller stores the records and goes on.
OnTagMetas(c) ==
    /\ expansions[c].pc = "awaiting"
    /\ tagCacheMaps' = StoreTagReplies(tagCacheMaps, translatorTagCache, expansions[c].nonCachedItems,
                                       FindTagMetaBulk(expansions[c].nonCachedItems),
                                       expansions[c].issued, 1)
    /\ expansions' = [expansions EXCEPT ![c] = NoExpansion]
    /\ UNCHANGED <<translatorTagCache, expansionsStarted, clears, served,
                   genVars, callVars, freqVars, foldVars, scanVars>>

\* findTagMetaBulk rejects: the call ends with the error.
TagMetasRejected(c) ==
    /\ expansions[c].pc = "awaiting"
    /\ expansions' = [expansions EXCEPT ![c] = NoExpansion]
    /\ UNCHANGED <<tagCacheMaps, translatorTagCache, expansionsStarted, clears, served,
                   genVars, callVars, freqVars, foldVars, scanVars>>

\* clearDatabaseCaches: this._tagCache.clear().
ClearDatabaseCaches ==
    /\ clears < MaxClears
    /\ translatorTagCache' = <<>>
    /\ clears' = clears + 1
    /\ UNCHANGED <<tagCacheMaps, expansions, expansionsStarted, served,
                   genVars, callVars, freqVars, foldVars, scanVars>>

TagsNext ==
    \/ \E c \in TagCallers, tagTargets \in TagTargetLists : ExpandTagGroups(c, tagTargets)
    \/ \E c \in TagCallers : OnTagMetas(c)
    \/ \E c \in TagCallers : TagMetasRejected(c)
    \/ ClearDatabaseCaches

SpecTags == TagsInit /\ [][TagsNext]_vars

\* The records the tag cache holds: those of the Maps _tagCache refers to.
CachedTagRecords ==
    UNION { Range(tagCacheMaps[translatorTagCache[i].cache]) : i \in 1..Len(translatorTagCache) }

\* C29: under any interleaving of calls with clearDatabaseCaches, no record
\* obtained by a tag query issued before the last clear is stored in the tag
\* cache or was served from it after that clear: every cached record, and
\* every record taken from the cache, comes from a query issued since.
NoTagRecordSurvivesClear ==
    /\ \A record \in CachedTagRecords : record.issued = clears
    /\ \A s \in served : s.issued = s.at

\* A call suspended across a clear has stored its reply in a Map the cache
\* no longer refers to, and a later call has read the same key from the
\* database again.
ReplyStoredInDetachedMap ==
    \E a \in 1..Len(tagCacheMaps) :
        /\ \A i \in 1..Len(translatorTagCache) : translatorTagCache[i].cache # a
        /\ \E stale \in Range(tagCacheMaps[a]) :
              /\ stale.issued < clears
              /\ \E record \in CachedTagRecords :
                    record.query = stale.query /\ record.issued = clears

====
